---- MODULE Spec2Model ----
(***************************************************************************)
(* A model of the multi-agent workflow engine of codex-cli                 *)
(* (src/codex-cli/src/utils/agent/multi-agent/workflow-engine.ts).         *)
(*                                                                         *)
(* The engine owns one WorkflowPlan {steps, currentStepIndex, status}.     *)
(* createPlan() asks the orchestrator agent for a list of steps; execute() *)
(* runs the steps one at a time, and each agent's NextAction (continue,    *)
(* reject, complete, question) or error reshapes the plan.  The awaits of  *)
(* execute() (agent.process and orchestrator.process) are the points where *)
(* the model splits a call into actions.                                   *)
(*                                                                         *)
(* Indices are 0-based as in the source: step i of the plan is             *)
(* plan.steps[i + 1] of the TLA+ sequence.                                 *)
(***************************************************************************)
EXTENDS Integers, Sequences, FiniteSets, TLC

(***************************************************************************)
(* Bounds of the model.                                                    *)
(***************************************************************************)
\* longest list of steps the coordinator proposes in createPlan
MaxPlanLen == 3
\* loop iterations one execute() call is followed through
MaxIterations == 3
\* largest value of the maxSteps option that is tried
MaxStepsOpt == 3
\* longest list of actions the Architect puts in a change plan
MaxActions == 2
\* longest list of actions in a payload given to validateChangePlan
MaxPayloadLen == 2

(***************************************************************************)
(* Roles (enum AgentRole) and the values agents are given and return.      *)
(***************************************************************************)
Roles == {"orchestrator", "architect", "coder", "tester", "reviewer"}

ORCHESTRATOR == "orchestrator"

\* a NextAction field that is absent (undefined, falsy)
NoRole == ""

\* roles the coordinator puts in its plans, and roles agents name in replies
PlanRoles == {"coder", "tester"}

ReplyRoles == {"coder", "tester"}

\* the agent maps an engine is constructed with
AgentSets == {Roles, Roles \ {"tester"}, Roles \ {ORCHESTRATOR}}

\* WorkflowStep.output before the step has run
Undefined == [type |-> "undefined"]

VARIABLES
  agents,           \* roles with a registered agent (the shared Map)
  plan,             \* WorkflowPlan: [steps, currentStepIndex, status]
  maxSteps,         \* options.maxSteps
  pc,               \* "idle", "loop", "agent" or "recovery"
  stepCount,        \* local stepCount of execute()
  timedOut,         \* Date.now() - startTime >= options.timeoutMs
  request,          \* the input of the orchestrator call in flight
  lastCall,         \* the last public call and how it ended
  planResp,         \* the coordinator's last answer to a plan_request
  lastPlanUpdated,  \* the plan as last handed to options.onPlanUpdated
  stepsCompleted,   \* ids handed to options.onStepCompleted, in order
  log,              \* the steps this execute() started, in order
  recoveries,       \* the attemptRecovery calls of this execute(), in order
  nextId,           \* identity of the next WorkflowStep object created
  taskState,        \* context.taskState.status of the owner of the engine
  cancelled         \* steps started when cancel() was called, -1 before it

\* the state of a WorkflowEngine and of its owner
evars == <<agents, plan, maxSteps, pc, stepCount, timedOut, request, lastCall,
           planResp, lastPlanUpdated, stepsCompleted, log, recoveries, nextId,
           taskState, cancelled>>

VARIABLES
  state,              \* Orchestrator.state
  currentPlan,        \* Orchestrator.currentPlan
  currentActionIndex, \* Orchestrator.currentActionIndex
  aborted,            \* abortController.signal.aborted
  phase,              \* where run() stands: what it awaits or does next
  loopOf,             \* the plan whose actions are looped over
  loopIndex,          \* the variable i of that loop
  act,                \* what has been done for the current action
  architectCalls,     \* calls of callArchitect in this run
  loading,            \* the arguments of the onLoading calls, in order
  replanned,          \* how attemptReplan ended, "no" when it was not called
  actionsStarted,     \* processAction calls begun in this run
  startedAfterAbort,  \* processAction calls begun with the signal aborted
  abortSeen           \* a loop found the signal aborted and stopped

\* the state of an Orchestrator
ovars == <<state, currentPlan, currentActionIndex, aborted, phase, loopOf,
           loopIndex, act, architectCalls, loading, replanned, actionsStarted,
           startedAfterAbort, abortSeen>>

VARIABLES
  payload,            \* the input validateChangePlan is called with
  parsed              \* what the call made of it, Pending before the call

\* the state of a call of validateChangePlan
pvars == <<payload, parsed>>

VARIABLES
  client,             \* the function called: callArchitect, callCoder, ...
  attempt,            \* the loop variable attempt
  requests,           \* calls of chat.completions.create made by the call
  errors,             \* the errors those calls ended with, in order
  waited,             \* the backoff delays (ms) waited for, in order
  telemetry,          \* the roles of the records in twoAgentTelemetry
  outcome             \* how the call ended, NoOutcome while it runs

\* the state of a call of the completion client
cvars == <<client, attempt, requests, errors, waited, telemetry, outcome>>

VARIABLES
  usage,                \* the token and cost figures of the records of
                        \* twoAgentTelemetry, in the order of telemetry
  multiAgentTelemetry,  \* global.multiAgentTelemetry: defined or not, and
                        \* its records
  summary               \* what reportTelemetry() made of the run

\* the state of the telemetry of one run of the Orchestrator
tvars == <<usage, multiAgentTelemetry, summary>>

VARIABLES
  conversationHistory,  \* context.conversationHistory of one shared context
  otherHistory,         \* the same of a second shared context
  slice,                \* the relevantHistory built from the first context
  otherSlice            \* the relevantHistory built from the second one

\* the state of two shared contexts and of the slices built from them
hvars == <<conversationHistory, otherHistory, slice, otherSlice>>

VARIABLES
  fileContent,          \* the content of the file, a sequence of characters
  mtime,                \* its modification time, counted in writes
  cache,                \* the .summary files of CACHE_DIR: key and content
  calls                 \* the getOrCreateFileSummary calls made, in order

\* the state of a file and of the summary cache
fvars == <<fileContent, mtime, cache, calls>>

VARIABLES
  workflowState,        \* MultiAgentOrchestrator.state
  awaiting,             \* the role whose agent.process is in flight
  pendingAction,        \* the nextAction processNextAction is called with
  invocations,          \* the roles whose agents were invoked, in order
  rejections,           \* the Reject actions agents answered with, in order
  indicator             \* the arguments of its onLoading calls, in order

\* the state of a MultiAgentOrchestrator that hands off between agents
mvars == <<workflowState, awaiting, pendingAction, invocations, rejections,
           indicator>>

\* the state of the helpers outside the engine, the Orchestrator and the
\* completion client
xvars == <<tvars, hvars, fvars, mvars>>

\* the state of the utilities the agents share
uvars == <<pvars, cvars, xvars>>

vars == <<evars, ovars, uvars>>

(***************************************************************************)
(* Change plans (ActionSchema, ChangePlanSchema, validateChangePlan).  A   *)
(* payload is a record; a property it does not have is a field the record  *)
(* does not have.                                                          *)
(***************************************************************************)
ActionKinds == {"edit", "command", "message"}

\* the properties the schema of a kind requires and those it allows
RequiredKeys(kind) ==
  CASE kind = "edit"    -> {"kind", "file", "description"}
    [] kind = "command" -> {"kind", "cmd"}
    [] kind = "message" -> {"kind", "content"}

OptionalKeys(kind) ==
  CASE kind = "edit"    -> {"hints"}
    [] kind = "command" -> {"expect"}
    [] kind = "message" -> {}

\* z.enum(["pass", "fail"])
ExpectValues == {"pass", "fail"}

\* ActionSchemaAccepts that takes any action of a known kind
ActionSchemaAcceptsKind(a) ==
  /\ "kind" \in DOMAIN a
  /\ a.kind \in ActionKinds

\* ActionSchema parses the payload a without an error
ActionSchemaAccepts(a) ==
  /\ "kind" \in DOMAIN a
  /\ a.kind \in ActionKinds
  /\ RequiredKeys(a.kind) \subseteq DOMAIN a
  /\ "expect" \in (DOMAIN a \cap OptionalKeys(a.kind))
       => a.expect \in ExpectValues

\* what ActionSchema makes of an accepted payload: the declared properties
ActionSchemaParse(a) ==
  [k \in DOMAIN a \cap (RequiredKeys(a.kind) \cup OptionalKeys(a.kind))
     |-> a[k]]

\* ValidateChangePlan that refuses a plan without actions
ValidateChangePlanNonEmpty(input) ==
  IF /\ "actions" \in DOMAIN input
     /\ Len(input.actions) > 0
     /\ \A k \in DOMAIN input.actions : ActionSchemaAccepts(input.actions[k])
    THEN [ok |-> TRUE,
          plan |-> [actions |-> [k \in DOMAIN input.actions |->
                                   ActionSchemaParse(input.actions[k])]]]
    ELSE [ok |-> FALSE, plan |-> [actions |-> <<>>]]

\* validateChangePlan(input): ok is FALSE when ChangePlanSchema.parse throws
ValidateChangePlan(input) ==
  IF /\ "actions" \in DOMAIN input
     /\ \A k \in DOMAIN input.actions : ActionSchemaAccepts(input.actions[k])
    THEN [ok |-> TRUE,
          plan |-> [actions |-> [k \in DOMAIN input.actions |->
                                   ActionSchemaParse(input.actions[k])]]]
    ELSE [ok |-> FALSE, plan |-> [actions |-> <<>>]]

\* the actions the Architect puts in its plans
EditAction == [kind |-> "edit", file |-> "a.ts", description |-> "change"]

CommandAction(expect) ==
  [kind |-> "command", cmd |-> "npm test", expect |-> expect]

MessageAction == [kind |-> "message", content |-> "note"]

EditActionWithHints ==
  [kind |-> "edit", file |-> "b.ts", description |-> "change",
   hints |-> "keep the exports"]

PlanActions ==
  {EditAction, EditActionWithHints, CommandAction("pass"),
   CommandAction("fail"), MessageAction}

\* the payloads the Architect answers with: plans of up to MaxActions
\* actions, a payload without actions and a plan with a broken action
ArchitectPayloads ==
  UNION {{[actions |-> f] : f \in [1..n -> PlanActions]} : n \in 0..MaxActions}
  \cup {[plan |-> <<>>],
        [actions |-> <<MessageAction, [kind |-> "edit", file |-> "a.ts"]>>]}

\* what callArchitect does: it throws, or it returns a text that is JSON
\* of a payload or is not JSON at all
ArchitectResponses ==
  {[kind |-> "throws"], [kind |-> "returns", json |-> FALSE]}
  \cup {[kind |-> "returns", json |-> TRUE, payload |-> pl] :
          pl \in ArchitectPayloads}

\* JSON.parse and validateChangePlan on the Architect's text
ParsePlan(resp) ==
  IF resp.json THEN ValidateChangePlan(resp.payload)
  ELSE [ok |-> FALSE, plan |-> [actions |-> <<>>]]


(***************************************************************************)
(* The plan and its steps.                                                 *)
(***************************************************************************)
\* one WorkflowStep object; id is the identity of the object
NewStep(id, role, input) ==
  [id |-> id, role |-> role, input |-> input, output |-> Undefined,
   status |-> "pending"]

\* the plan the constructor makes
EmptyPlan == [steps |-> <<>>, currentStepIndex |-> -1, status |-> "planning"]

\* plan.steps[i], i counted from 0
StepAt(p, i) == p.steps[i + 1]

\* the ids of the steps of a list
Ids(steps) == {steps[k].id : k \in DOMAIN steps}

\* Splice that always deletes one element more than asked
SpliceOneMore(steps, start, deleteCount, items) ==
  SubSeq(steps, 1, start) \o items
    \o SubSeq(steps, start + deleteCount + 2, Len(steps))

\* Array.prototype.splice(start, deleteCount, ...items), start <= length
Splice(steps, start, deleteCount, items) ==
  SubSeq(steps, 1, start) \o items
    \o SubSeq(steps, start + deleteCount + 1, Len(steps))

\* FindIndex that looks at every step but the current one
FindIndexAnywhere(steps, cur, role) ==
  LET hits == {i \in 0..(Len(steps) - 1) : i # cur /\ steps[i + 1].role = role}
  IN  IF hits = {} THEN -1
      ELSE CHOOSE i \in hits : \A j \in hits : i <= j

\* steps.findIndex((step, index) => index > cur && step.role === role)
FindIndex(steps, cur, role) ==
  LET hits == {i \in 0..(Len(steps) - 1) : i > cur /\ steps[i + 1].role = role}
  IN  IF hits = {} THEN -1
      ELSE CHOOSE i \in hits : \A j \in hits : i <= j

(***************************************************************************)
(* createPlan                                                              *)
(***************************************************************************)
\* the lists of steps a coordinator answers a plan_request with: step k has
\* a role and the action k
CoordinatorPlans ==
  UNION {{[k \in 1..n |-> [role |-> f[k], action |-> k]] :
            f \in [1..n -> PlanRoles]} : n \in 0..MaxPlanLen}

\* what orchestrator.process does with a plan_request: it throws, or it
\* returns an output with or without plan.steps
PlanResponses ==
  {[kind |-> "throws", hasSteps |-> FALSE, steps |-> <<>>],
   [kind |-> "returns", hasSteps |-> FALSE, steps |-> <<>>]}
  \cup {[kind |-> "returns", hasSteps |-> TRUE, steps |-> cs] :
          cs \in CoordinatorPlans}

\* MapPlanSteps with the coordinator's steps taken in reverse order
MapPlanStepsReversed(cs, nid) ==
  [k \in 1..Len(cs) |->
     NewStep(nid + k - 1, cs[Len(cs) + 1 - k].role,
             [type |-> "task", description |-> cs[Len(cs) + 1 - k].action])]

\* response.output.plan.steps.map(step => ({role, input, status}))
MapPlanSteps(cs, nid) ==
  [k \in 1..Len(cs) |->
     NewStep(nid + k - 1, cs[k].role,
             [type |-> "task", description |-> cs[k].action])]

\* CreatePlanOutcome with the plan metadata updated before the response is
\* looked at
CreatePlanOutcomeEager(p, registered, resp, nid) ==
  LET p1 == [p EXCEPT !.status = "planning"]
      p2 == [p1 EXCEPT !.currentStepIndex = 0]
  IN  IF ORCHESTRATOR \notin registered
        THEN [plan |-> p1, threw |-> TRUE, asked |-> FALSE, notified |-> FALSE]
      ELSE IF resp.kind = "throws"
        THEN [plan |-> p1, threw |-> TRUE, asked |-> TRUE, notified |-> FALSE]
      ELSE IF ~resp.hasSteps
        THEN [plan |-> p2, threw |-> TRUE, asked |-> TRUE, notified |-> FALSE]
      ELSE [plan |-> [steps |-> MapPlanSteps(resp.steps, nid),
                      currentStepIndex |-> 0,
                      status |-> "executing"],
            threw |-> FALSE, asked |-> TRUE, notified |-> TRUE]

\* createPlan on plan p with the registered roles and the coordinator's
\* behaviour resp: the plan it leaves, whether it throws, whether the
\* coordinator was called and whether onPlanUpdated was called
CreatePlanOutcome(p, registered, resp, nid) ==
  LET p1 == [p EXCEPT !.status = "planning"]
  IN  IF ORCHESTRATOR \notin registered
        THEN [plan |-> p1, threw |-> TRUE, asked |-> FALSE, notified |-> FALSE]
      ELSE IF resp.kind = "throws" \/ ~resp.hasSteps
        THEN [plan |-> p1, threw |-> TRUE, asked |-> TRUE, notified |-> FALSE]
      ELSE [plan |-> [steps |-> MapPlanSteps(resp.steps, nid),
                      currentStepIndex |-> 0,
                      status |-> "executing"],
            threw |-> FALSE, asked |-> TRUE, notified |-> TRUE]

(***************************************************************************)
(* handleNextAction                                                        *)
(***************************************************************************)
\* the NextAction values agents return
Continue(role) == [type |-> "continue", nextRole |-> role]

Reject(reason, role) ==
  [type |-> "reject", reason |-> reason, suggestedRole |-> role]

Complete(out) == [type |-> "complete", finalOutput |-> out]

Question(q, role) == [type |-> "question", question |-> q, targetRole |-> role]

NextActions ==
  {Continue(NoRole), Complete("final")}
  \cup {Continue(r) : r \in ReplyRoles}
  \cup {Reject("reason", r) : r \in ReplyRoles}
  \cup {Question("question", r) : r \in ReplyRoles}

\* HandleContinue that jumps to the named role without marking the steps
\* in between
HandleContinueNoSkip(p, na) ==
  LET cur == p.currentStepIndex
      nextIndex == FindIndex(p.steps, cur, na.nextRole)
  IN  IF na.nextRole # NoRole /\ nextIndex # -1
        THEN [p EXCEPT !.currentStepIndex = nextIndex]
        ELSE [p EXCEPT !.currentStepIndex = cur + 1]

\* HandleContinue that marks the steps still ahead as skipped when no
\* step is found for the role
HandleContinueSkipAhead(p, na) ==
  LET cur == p.currentStepIndex
      nextIndex == FindIndex(p.steps, cur, na.nextRole)
  IN  [p EXCEPT
         !.steps = [k \in DOMAIN p.steps |->
                      IF k - 1 >= cur + 1
                           /\ (nextIndex = -1 \/ k - 1 < nextIndex)
                        THEN [p.steps[k] EXCEPT !.status = "skipped"]
                        ELSE p.steps[k]],
         !.currentStepIndex = IF na.nextRole # NoRole /\ nextIndex # -1
                                THEN nextIndex ELSE cur + 1]

\* case "continue"
HandleContinue(p, na) ==
  LET cur == p.currentStepIndex
      nextIndex == FindIndex(p.steps, cur, na.nextRole)
  IN  IF na.nextRole # NoRole /\ nextIndex # -1
        THEN [p EXCEPT
                !.steps = [k \in DOMAIN p.steps |->
                             IF k - 1 >= cur + 1 /\ k - 1 < nextIndex
                               THEN [p.steps[k] EXCEPT !.status = "skipped"]
                               ELSE p.steps[k]],
                !.currentStepIndex = nextIndex]
        ELSE [p EXCEPT !.currentStepIndex = cur + 1]

\* HandleReject that appends the new step at the end of the list
HandleRejectAppend(p, na, nid) ==
  LET cur == p.currentStepIndex
      step == NewStep(nid, na.suggestedRole,
                      [type |-> "recovery",
                       reason |-> na.reason,
                       previousRole |-> StepAt(p, cur).role,
                       previousInput |-> StepAt(p, cur).input])
  IN  [p EXCEPT !.steps = Append(p.steps, step),
                !.currentStepIndex = cur + 1]

\* case "reject"
HandleReject(p, na, nid) ==
  LET cur == p.currentStepIndex
      step == NewStep(nid, na.suggestedRole,
                      [type |-> "recovery",
                       reason |-> na.reason,
                       previousRole |-> StepAt(p, cur).role,
                       previousInput |-> StepAt(p, cur).input])
  IN  [p EXCEPT !.steps = Splice(p.steps, cur + 1, 0, <<step>>),
                !.currentStepIndex = cur + 1]

\* HandleComplete that ends the plan but leaves the remaining steps pending
HandleCompleteNoSkip(p, na) ==
  [p EXCEPT !.currentStepIndex = Len(p.steps), !.status = "completed"]

\* HandleComplete that leaves currentStepIndex at the completing step
HandleCompleteKeepIndex(p, na) ==
  LET cur == p.currentStepIndex
  IN  [p EXCEPT
         !.steps = [k \in DOMAIN p.steps |->
                      IF k - 1 >= cur + 1
                        THEN [p.steps[k] EXCEPT !.status = "skipped"]
                        ELSE p.steps[k]],
         !.status = "completed"]

\* case "complete"
HandleComplete(p, na) ==
  LET cur == p.currentStepIndex
  IN  [p EXCEPT
         !.steps = [k \in DOMAIN p.steps |->
                      IF k - 1 >= cur + 1
                        THEN [p.steps[k] EXCEPT !.status = "skipped"]
                        ELSE p.steps[k]],
         !.currentStepIndex = Len(p.steps),
         !.status = "completed"]

\* HandleQuestion that inserts both steps at the same place, so that the
\* step of the asking role comes first
HandleQuestionSamePlace(p, na, nid) ==
  LET cur == p.currentStepIndex
      ask == NewStep(nid, na.targetRole,
                     [type |-> "question",
                      question |-> na.question,
                      askedBy |-> StepAt(p, cur).role])
      s1 == Splice(p.steps, cur + 1, 0, <<ask>>)
      back == NewStep(nid + 1, s1[cur + 1].role,
                      [type |-> "continue_after_question",
                       originalInput |-> s1[cur + 1].input])
  IN  [p EXCEPT !.steps = Splice(s1, cur + 1, 0, <<back>>),
                !.currentStepIndex = cur + 1]

\* case "question"
HandleQuestion(p, na, nid) ==
  LET cur == p.currentStepIndex
      ask == NewStep(nid, na.targetRole,
                     [type |-> "question",
                      question |-> na.question,
                      askedBy |-> StepAt(p, cur).role])
      s1 == Splice(p.steps, cur + 1, 0, <<ask>>)
      back == NewStep(nid + 1, s1[cur + 1].role,
                      [type |-> "continue_after_question",
                       originalInput |-> s1[cur + 1].input])
  IN  [p EXCEPT !.steps = Splice(s1, cur + 2, 0, <<back>>),
                !.currentStepIndex = cur + 1]

\* handleNextAction(nextAction) on plan p; nid is the identity of the first
\* step object it creates
HandleNextAction(p, na, nid) ==
  CASE na.type = "continue" -> HandleContinue(p, na)
    [] na.type = "reject"   -> HandleReject(p, na, nid)
    [] na.type = "complete" -> HandleComplete(p, na)
    [] na.type = "question" -> HandleQuestion(p, na, nid)

(***************************************************************************)
(* attemptRecovery                                                         *)
(***************************************************************************)
\* the recovery plans a coordinator answers a recovery request with
RecoveryPlans ==
  {<<>>, <<[role |-> "coder", action |-> "fix"]>>}

\* what orchestrator.process does with a recovery request: it throws, or it
\* returns a nextAction of some type and an output with or without
\* recoveryPlan
RecoveryResponses ==
  {[kind |-> "throws", nextType |-> "continue", hasPlan |-> FALSE,
    steps |-> <<>>]}
  \cup {[kind |-> "returns", nextType |-> "continue", hasPlan |-> FALSE,
         steps |-> <<>>],
        [kind |-> "returns", nextType |-> "complete", hasPlan |-> TRUE,
         steps |-> <<[role |-> "coder", action |-> "fix"]>>]}
  \cup {[kind |-> "returns", nextType |-> "continue", hasPlan |-> TRUE,
          steps |-> rs] : rs \in RecoveryPlans}

\* the errors a step can end with
AgentError == "agent failed"

NotFoundError(role) == "Agent for role " \o role \o " not found"

\* the catch block of execute() up to the call of attemptRecovery
MarkFailed(p, err) ==
  [p EXCEPT !.steps[p.currentStepIndex + 1].status = "failed",
            !.steps[p.currentStepIndex + 1].output = [error |-> err]]

\* the input attemptRecovery gives the orchestrator
RecoveryRequest(p, err) ==
  [type |-> "recovery", error |-> err,
   failedStep |-> StepAt(p, p.currentStepIndex)]

\* recoveryPlan.map(step => ({role, input, status}))
MapRecoverySteps(rs, err, nid) ==
  [k \in 1..Len(rs) |->
     NewStep(nid + k - 1, rs[k].role,
             [type |-> "recovery_task", description |-> rs[k].action,
              originalError |-> err])]

\* RecoveryOutcome that moves past the failed step when there is no
\* recovery plan
RecoveryOutcomeMoveOn(p, resp, err, nid) ==
  LET cur == p.currentStepIndex
  IN  IF resp.kind = "returns" /\ resp.nextType = "continue" /\ resp.hasPlan
        THEN [p EXCEPT
                !.steps = Splice(p.steps, cur + 1, Len(p.steps) - cur - 1,
                                 MapRecoverySteps(resp.steps, err, nid)),
                !.currentStepIndex = cur + 1]
        ELSE [p EXCEPT !.currentStepIndex = cur + 1]

\* attemptRecovery once the orchestrator has answered (or thrown)
RecoveryOutcome(p, resp, err, nid) ==
  LET cur == p.currentStepIndex
  IN  IF resp.kind = "returns" /\ resp.nextType = "continue" /\ resp.hasPlan
        THEN [p EXCEPT
                !.steps = Splice(p.steps, cur + 1, Len(p.steps) - cur - 1,
                                 MapRecoverySteps(resp.steps, err, nid)),
                !.currentStepIndex = cur + 1]
        ELSE [p EXCEPT !.status = "failed"]

\* attemptRecovery when no orchestrator is registered
RecoveryWithoutOrchestrator(p) == [p EXCEPT !.status = "failed"]

(***************************************************************************)
(* execute                                                                 *)
(***************************************************************************)
\* what an agent's response carries as output
AgentOutput(role) == [result |-> role]

\* an agent call that has not come back
Pending == [type |-> "pending"]

Threw == [type |-> "throws"]

\* agent.process calls made by this execute()
Invocations == Cardinality({k \in DOMAIN log : log[k].invoked})

\* the condition of the while loop
LoopCondition(p, count, limit, late) ==
  /\ p.currentStepIndex < Len(p.steps)
  /\ p.status = "executing"
  /\ count < limit
  /\ ~late

\* FinalStatus without the check of the step budget
FinalStatusNoBudget(p, count, limit, late) ==
  IF p.currentStepIndex >= Len(p.steps) THEN "completed"
  ELSE IF late THEN "failed"
  ELSE p.status

\* the status checks after the loop
FinalStatus(p, count, limit, late) ==
  IF p.currentStepIndex >= Len(p.steps) THEN "completed"
  ELSE IF late THEN "failed"
  ELSE IF count >= limit THEN "failed"
  ELSE p.status

\* StoreOutput that stores the output and leaves the status as it is
StoreOutputKeepStatus(p, out) ==
  [p EXCEPT !.steps[p.currentStepIndex + 1].output = out]

\* the step after agent.process returned: output stored, status completed
StoreOutput(p, out) ==
  [p EXCEPT !.steps[p.currentStepIndex + 1].output = out,
            !.steps[p.currentStepIndex + 1].status = "completed"]

\* no action of a plan has been started
NoAction ==
  [kind |-> "none", coderCalls |-> 0, gateAsks |-> 0, applies |-> 0,
   denied |-> FALSE, success |-> FALSE, check |-> "none", heals |-> 0,
   healCalls |-> 0, hints |-> "", retryHints |-> "", healed |-> FALSE,
   action |-> [type |-> "null"], exec |-> [kind |-> "none", exit |-> 0],
   approvals |-> 0, healDenied |-> FALSE]

\* currentPlan before a plan has been validated
Null == [type |-> "null"]

\* the fields of a new Orchestrator, on which run() has not been called
NewOrchestrator ==
  /\ state = "idle"
  /\ currentPlan = Null
  /\ currentActionIndex = 0
  /\ aborted = FALSE
  /\ phase = "idle"
  /\ loopOf = "none"
  /\ loopIndex = 0
  /\ act = NoAction
  /\ architectCalls = 0
  /\ loading = <<>>
  /\ replanned = "no"
  /\ actionsStarted = 0
  /\ startedAfterAbort = 0
  /\ abortSeen = FALSE

\* no call of validateChangePlan has been made
NoValidation ==
  /\ payload = Pending
  /\ parsed = Pending

\* a call of the completion client that has not ended
NoOutcome == [kind |-> "none", error |-> [type |-> "pending"]]

\* no call of the completion client has been made; the telemetry array is
\* empty as the module leaves it when it is loaded
IdleClient ==
  /\ client = "none"
  /\ attempt = 0
  /\ requests = 0
  /\ errors = <<>>
  /\ waited = <<>>
  /\ telemetry = <<>>
  /\ outcome = NoOutcome

\* what reportTelemetry() gives before it ran, and when it returns early
NoSummary == [state |-> "none", tokens_in |-> 0, tokens_out |-> 0,
              cost_usd |-> 0, architect |-> 0, coder |-> 0]

\* no run has recorded or reported telemetry; the Orchestrator module never
\* assigns global.multiAgentTelemetry
NoTelemetry ==
  /\ usage = <<>>
  /\ multiAgentTelemetry = [defined |-> FALSE, items |-> <<>>]
  /\ summary = NoSummary

\* a context slice that has not been built
NoSlice == [role |-> "none", relevantHistory |-> <<>>]

\* two shared contexts as they are created: no message yet, no
\* slice built
NewContexts ==
  /\ conversationHistory = <<>>
  /\ otherHistory = <<>>
  /\ slice = NoSlice
  /\ otherSlice = NoSlice

\* an empty file that was never written, an empty cache directory and no
\* call of getOrCreateFileSummary
EmptyCache ==
  /\ fileContent = <<>>
  /\ mtime = 0
  /\ cache = {}
  /\ calls = <<>>

\* no nextAction: none has been answered, or the one answered was handled
NoNextAction == [type |-> "none", role |-> "none"]

\* a new MultiAgentOrchestrator, on which run() has not been called
NewMultiAgentOrchestrator ==
  /\ workflowState = "idle"
  /\ awaiting = "none"
  /\ pendingAction = NoNextAction
  /\ invocations = <<>>
  /\ rejections = <<>>
  /\ indicator = <<>>

\* the fields of a new WorkflowEngine and of its owner
NewEngine ==
  /\ agents \in AgentSets
  /\ maxSteps \in 1..MaxStepsOpt
  /\ plan = EmptyPlan
  /\ pc = "idle"
  /\ stepCount = 0
  /\ timedOut = FALSE
  /\ request = Pending
  /\ lastCall = [op |-> "none", result |-> "none"]
  /\ planResp = Pending
  /\ lastPlanUpdated = Pending
  /\ stepsCompleted = <<>>
  /\ log = <<>>
  /\ recoveries = <<>>
  /\ nextId = 1
  /\ taskState = "planning"
  /\ cancelled = -1

Init ==
  /\ NewOrchestrator
  /\ NewEngine
  /\ NoValidation
  /\ IdleClient
  /\ NoTelemetry
  /\ NewContexts
  /\ EmptyCache
  /\ NewMultiAgentOrchestrator

\* a direct call of createPlan() on a new engine
CreatePlanCall ==
  /\ pc = "idle"
  /\ lastCall.op = "none"
  /\ \E resp \in PlanResponses :
       LET out == CreatePlanOutcome(plan, agents, resp, nextId)
       IN  /\ plan' = out.plan
           /\ planResp' = IF out.asked THEN resp ELSE Pending
           /\ lastPlanUpdated' =
                IF out.notified THEN out.plan ELSE lastPlanUpdated
           /\ taskState' = IF out.notified THEN out.plan.status ELSE taskState
           /\ nextId' = IF out.threw THEN nextId
                        ELSE nextId + Len(out.plan.steps)
           /\ lastCall' = [op |-> "createPlan",
                           result |-> IF out.threw THEN "threw"
                                      ELSE "returned"]
  /\ UNCHANGED <<agents, maxSteps, pc, stepCount, timedOut, request,
                 stepsCompleted, log, recoveries, cancelled>>
  /\ UNCHANGED ovars
  /\ UNCHANGED uvars

\* the call of execute() on an engine, up to the first test of the loop
\* condition
ExecuteCall ==
  /\ pc = "idle"
  /\ lastCall.op # "execute"
  /\ stepsCompleted' = <<>>
  /\ log' = <<>>
  /\ recoveries' = <<>>
  /\ request' = Pending
  /\ IF plan.status = "planning" \/ Len(plan.steps) = 0
       THEN \E resp \in PlanResponses :
              LET out == CreatePlanOutcome(plan, agents, resp, nextId)
              IN  /\ plan' = out.plan
                  /\ planResp' = IF out.asked THEN resp ELSE Pending
                  /\ lastPlanUpdated' =
                       IF out.notified THEN out.plan ELSE lastPlanUpdated
                  /\ taskState' =
                       IF out.notified THEN out.plan.status ELSE taskState
                  /\ nextId' = IF out.threw THEN nextId
                               ELSE nextId + Len(out.plan.steps)
                  /\ pc' = IF out.threw THEN "idle" ELSE "loop"
                  /\ lastCall' = [op |-> "execute",
                                  result |-> IF out.threw THEN "threw"
                                             ELSE "running"]
       ELSE /\ pc' = "loop"
            /\ lastCall' = [op |-> "execute", result |-> "running"]
            /\ UNCHANGED <<plan, planResp, lastPlanUpdated, nextId,
                           taskState>>
  /\ stepCount' = 0
  /\ timedOut' = FALSE
  /\ UNCHANGED <<agents, maxSteps, cancelled>>
  /\ UNCHANGED ovars
  /\ UNCHANGED uvars

\* the catch block of execute() with the synchronous start of
\* attemptRecovery: p is the plan when the error err is caught, at is the
\* place in the log of the step that failed, shown and told the plan and
\* the task status that the last call of onPlanUpdated left
Catch(p, err, at, shown, told) ==
  LET failed == MarkFailed(p, err)
      entry == [error |-> err, at |-> at,
                asked |-> ORCHESTRATOR \in agents,
                request |-> RecoveryRequest(failed, err),
                resp |-> Pending, before |-> failed, after |-> failed]
  IN  IF ORCHESTRATOR \in agents
        THEN /\ plan' = failed
             /\ request' = RecoveryRequest(failed, err)
             /\ recoveries' = Append(recoveries, entry)
             /\ pc' = "recovery"
             /\ lastPlanUpdated' = shown
             /\ taskState' = told
        ELSE LET after == RecoveryWithoutOrchestrator(failed)
             IN  /\ plan' = after
                 /\ recoveries' =
                      Append(recoveries, [entry EXCEPT !.after = after])
                 /\ lastPlanUpdated' = after
                 /\ taskState' = after.status
                 /\ pc' = "loop"
                 /\ UNCHANGED request

\* one test of the loop condition: the loop ends and execute() returns, or
\* the current step starts and its agent is called (or is not found)
LoopHead ==
  /\ pc = "loop"
  /\ IF LoopCondition(plan, stepCount, maxSteps, timedOut)
       THEN LET cur == plan.currentStepIndex
                started == [plan EXCEPT !.steps[cur + 1].status = "in_progress"]
                role == StepAt(plan, cur).role
                entry == [id |-> StepAt(plan, cur).id, index |-> cur,
                          invoked |-> role \in agents, na |-> Pending,
                          before |-> started, after |-> started]
            IN  /\ Len(log) < MaxIterations
                /\ IF role \in agents
                     THEN /\ plan' = started
                          /\ lastPlanUpdated' = started
                          /\ taskState' = started.status
                          /\ log' = Append(log, entry)
                          /\ pc' = "agent"
                          /\ UNCHANGED <<request, recoveries>>
                     ELSE /\ Catch(started, NotFoundError(role),
                                   Len(log) + 1, started, started.status)
                          /\ log' = Append(log,
                                      [entry EXCEPT
                                         !.na = Threw,
                                         !.after = MarkFailed(started,
                                                     NotFoundError(role))])
                /\ UNCHANGED lastCall
       ELSE LET final == [plan EXCEPT
                            !.status = FinalStatus(plan, stepCount, maxSteps,
                                                   timedOut)]
            IN  /\ plan' = final
                /\ lastPlanUpdated' = final
                /\ taskState' = final.status
                /\ pc' = "idle"
                /\ lastCall' = [op |-> "execute", result |-> "returned"]
                /\ UNCHANGED <<request, log, recoveries>>
  /\ UNCHANGED <<agents, maxSteps, stepCount, timedOut, planResp,
                 stepsCompleted, nextId, cancelled>>
  /\ UNCHANGED ovars
  /\ UNCHANGED uvars

\* agent.process returns a response with the next action na
AgentReturns ==
  /\ pc = "agent"
  /\ \E na \in NextActions :
       LET cur == plan.currentStepIndex
           stored == StoreOutput(plan, AgentOutput(StepAt(plan, cur).role))
           after == HandleNextAction(stored, na, nextId)
       IN  /\ plan' = after
           /\ nextId' = nextId + (Len(after.steps) - Len(stored.steps))
           /\ stepsCompleted' = Append(stepsCompleted, StepAt(plan, cur).id)
           /\ lastPlanUpdated' = after
           /\ taskState' = after.status
           /\ log' = [log EXCEPT ![Len(log)].na = na,
                                 ![Len(log)].after = after]
  /\ stepCount' = stepCount + 1
  /\ pc' = "loop"
  /\ UNCHANGED <<agents, maxSteps, timedOut, request, lastCall, planResp,
                 recoveries, cancelled>>
  /\ UNCHANGED ovars
  /\ UNCHANGED uvars

\* agent.process throws
AgentThrows ==
  /\ pc = "agent"
  /\ Catch(plan, AgentError, Len(log), lastPlanUpdated, taskState)
  /\ log' = [log EXCEPT ![Len(log)].na = Threw,
                        ![Len(log)].after = MarkFailed(plan, AgentError)]
  /\ UNCHANGED <<agents, maxSteps, stepCount, timedOut, lastCall, planResp,
                 stepsCompleted, nextId, cancelled>>
  /\ UNCHANGED ovars
  /\ UNCHANGED uvars

\* the orchestrator answers the recovery request (or throws)
RecoveryAnswered ==
  /\ pc = "recovery"
  /\ \E resp \in RecoveryResponses :
       LET after == RecoveryOutcome(plan, resp, request.error, nextId)
           n == Len(recoveries)
       IN  /\ plan' = after
           /\ nextId' = IF after.status = "failed" THEN nextId
                        ELSE nextId + Len(resp.steps)
           /\ lastPlanUpdated' = after
           /\ taskState' = after.status
           /\ recoveries' = [recoveries EXCEPT ![n].resp = resp,
                                               ![n].after = after]
  /\ pc' = "loop"
  /\ UNCHANGED <<agents, maxSteps, stepCount, timedOut, request, lastCall,
                 planResp, stepsCompleted, log, cancelled>>
  /\ UNCHANGED ovars
  /\ UNCHANGED uvars

\* the wall clock passes options.timeoutMs while a call is awaited
Tick ==
  /\ pc \in {"agent", "recovery"}
  /\ ~timedOut
  /\ timedOut' = TRUE
  /\ UNCHANGED <<agents, plan, maxSteps, pc, stepCount, request, lastCall,
                 planResp, lastPlanUpdated, stepsCompleted, log, recoveries,
                 nextId, taskState, cancelled>>
  /\ UNCHANGED ovars
  /\ UNCHANGED uvars

\* the owner of the agent map clears it and marks the task failed
\* (MultiAgentOrchestrator.terminate) while the engine awaits the first
\* agent call of execute()
Terminate ==
  /\ pc = "agent"
  /\ Len(log) = 1
  /\ agents # {}
  /\ agents' = {}
  /\ taskState' = "failed"
  /\ UNCHANGED <<plan, maxSteps, pc, stepCount, timedOut, request, lastCall,
                 planResp, lastPlanUpdated, stepsCompleted, log, recoveries,
                 nextId, cancelled>>
  /\ UNCHANGED ovars
  /\ UNCHANGED uvars

\* the owner of the engine is told to cancel (MultiAgentOrchestrator.cancel)
\* while execute() awaits an agent or the coordinator: it marks the task
\* failed and tells its listeners
Cancel ==
  /\ pc \in {"agent", "recovery"}
  /\ cancelled = -1
  /\ taskState' = "failed"
  /\ cancelled' = Len(log)
  /\ UNCHANGED <<agents, plan, maxSteps, pc, stepCount, timedOut, request,
                 lastCall, planResp, lastPlanUpdated, stepsCompleted, log,
                 recoveries, nextId>>
  /\ UNCHANGED ovars
  /\ UNCHANGED uvars

Next ==
  \/ CreatePlanCall
  \/ ExecuteCall
  \/ LoopHead
  \/ AgentReturns
  \/ AgentThrows
  \/ RecoveryAnswered
  \/ Tick
  \/ Terminate

Spec == Init /\ [][Next]_vars

\* an engine with every agent registered whose owner may be told to cancel
CancelInit ==
  /\ Init
  /\ agents = Roles
  /\ maxSteps = MaxStepsOpt

CancelNext == Next \/ Cancel

CancelSpec == CancelInit /\ [][CancelNext]_vars

(***************************************************************************)
(* Orchestrator.run: the Architect plans, the Coder edits                  *)
(***************************************************************************)
\* an end of run() that leaves the loading indicator on
FinishStillLoading ==
  /\ state' = "done"
  /\ loading' = loading
  /\ phase' = "returned"

\* the end of run(): final health checks, telemetry, state DONE
Finish ==
  /\ state' = "done"
  /\ loading' = Append(loading, FALSE)
  /\ phase' = "returned"

\* run() gives up: an invalid plan, or the catch block of run()
GiveUp ==
  /\ state' = "error"
  /\ loading' = Append(loading, FALSE)
  /\ phase' = "returned"

\* run(input): up to the call of callArchitect
Run ==
  /\ phase = "idle"
  /\ state' = "architect_call"
  /\ loading' = Append(loading, TRUE)
  /\ aborted' = FALSE
  /\ architectCalls' = architectCalls + 1
  /\ phase' = "architect"
  /\ UNCHANGED <<currentPlan, currentActionIndex, loopOf, loopIndex, act,
                 replanned, actionsStarted, startedAfterAbort, abortSeen>>
  /\ UNCHANGED evars
  /\ UNCHANGED uvars

\* callArchitect comes back: the plan is parsed and validated, and the loop
\* over its actions is entered
ArchitectAnswers ==
  /\ phase = "architect"
  /\ \E resp \in ArchitectResponses :
       IF resp.kind = "throws" \/ ~ParsePlan(resp).ok
         THEN /\ GiveUp
              /\ UNCHANGED <<currentPlan, currentActionIndex, loopOf,
                             loopIndex>>
         ELSE /\ currentPlan' = ParsePlan(resp).plan
              /\ state' = "executing_plan"
              /\ currentActionIndex' = 0
              /\ loopOf' = "original"
              /\ loopIndex' = 0
              /\ phase' = "loop"
              /\ UNCHANGED loading
  /\ UNCHANGED <<aborted, act, architectCalls, replanned, actionsStarted,
                 startedAfterAbort, abortSeen>>
  /\ UNCHANGED evars
  /\ UNCHANGED uvars

\* BreaksOnAbort that looks at the signal in the first loop only
BreaksOnAbortOriginalOnly(which, signal) == which = "original" /\ signal

\* if (this.abortController.signal.aborted) break, in the loop over the
\* original plan and in the loop over the revised plan
BreaksOnAbort(which, signal) == signal

\* what buildCoderContext does: it builds the context, or it throws because
\* the cache directory cannot be made
ContextResults == {"built", "throws"}

\* action.hints || ""
HintsOf(a) == IF "hints" \in DOMAIN a THEN a.hints ELSE ""

\* processAction(action) up to its first await that leaves the process
StartAction(a) ==
  /\ actionsStarted' = actionsStarted + 1
  /\ startedAfterAbort' = startedAfterAbort + (IF aborted THEN 1 ELSE 0)
  /\ CASE a.kind = "edit" ->
            \E ctx \in ContextResults :
              IF ctx = "built"
                THEN /\ act' = [NoAction EXCEPT !.kind = "edit",
                                                !.hints = HintsOf(a),
                                                !.coderCalls = 1]
                     /\ phase' = "coder"
                ELSE /\ act' = [NoAction EXCEPT !.kind = "edit",
                                                !.hints = HintsOf(a)]
                     /\ phase' = "health"
       [] a.kind = "command" ->
            /\ act' = [NoAction EXCEPT !.kind = "command", !.action = a]
            /\ phase' = "exec"
       [] a.kind = "message" ->
            /\ act' = [NoAction EXCEPT !.kind = "message", !.success = TRUE]
            /\ phase' = "health"

\* the top of one iteration of the loop over the actions, or its end
ActionLoop ==
  /\ phase = "loop"
  /\ IF loopIndex < Len(currentPlan.actions)
       THEN /\ currentActionIndex' = loopIndex
            /\ IF BreaksOnAbort(loopOf, aborted)
                 THEN /\ abortSeen' = TRUE
                      /\ Finish
                      /\ UNCHANGED <<act, actionsStarted, startedAfterAbort>>
                 ELSE /\ StartAction(currentPlan.actions[loopIndex + 1])
                      /\ UNCHANGED <<state, loading, abortSeen>>
       ELSE /\ Finish
            /\ UNCHANGED <<currentActionIndex, act, actionsStarted,
                           startedAfterAbort, abortSeen>>
  /\ UNCHANGED <<currentPlan, aborted, loopOf, loopIndex, architectCalls,
                 replanned>>
  /\ UNCHANGED evars
  /\ UNCHANGED uvars

\* callCoder comes back in processEditAction: the patch goes to the
\* confirmation gate, or the error ends processAction
CoderAnswers ==
  /\ phase = "coder"
  /\ \E r \in {"returns", "throws"} :
       IF r = "returns"
         THEN /\ act' = [act EXCEPT !.gateAsks = @ + 1]
              /\ phase' = "gate"
         ELSE /\ act' = [act EXCEPT !.success = FALSE]
              /\ phase' = "health"
  /\ UNCHANGED <<state, currentPlan, currentActionIndex, aborted, loopOf,
                 loopIndex, architectCalls, loading, replanned,
                 actionsStarted, startedAfterAbort, abortSeen>>
  /\ UNCHANGED evars
  /\ UNCHANGED uvars

\* the values of ReviewDecision
ReviewDecisions == {"yes", "no-continue", "no-exit", "always", "explain"}

\* what getCommandConfirmation answers: a decision, and the patch it hands
\* back, told by what applying it would do ("none" when it hands back no
\* applyPatch)
Confirmations ==
  {[review |-> d, apply |-> p] :
     d \in ReviewDecisions, p \in {"none", "ok", "fails"}}

\* Applies that does not look at the decision
AppliesWhatIsHandedBack(c) == c.apply # "none"

\* confirmation.applyPatch.apply() is called after the confirmation c
Applies(c) == c.review = "yes" /\ c.apply # "none"

\* the result of processEditAction after the confirmation c
EditSucceeds(c) == c.review = "yes" /\ c.apply # "fails"

\* the confirmation gate answers in processEditAction
ConfirmationAnswers ==
  /\ phase = "gate"
  /\ \E c \in Confirmations :
       act' = [act EXCEPT
                 !.denied = (c.review # "yes"),
                 !.approvals = @ + (IF c.review = "yes" THEN 1 ELSE 0),
                 !.applies = @ + (IF Applies(c) THEN 1 ELSE 0),
                 !.success = EditSucceeds(c)]
  /\ phase' = "health"
  /\ UNCHANGED <<state, currentPlan, currentActionIndex, aborted, loopOf,
                 loopIndex, architectCalls, loading, replanned,
                 actionsStarted, startedAfterAbort, abortSeen>>
  /\ UNCHANGED evars
  /\ UNCHANGED uvars

\* what handleExecCommand does: it returns an exit code, or it throws
ExecResults ==
  {[kind |-> "returns", exit |-> 0], [kind |-> "returns", exit |-> 1],
   [kind |-> "throws", exit |-> 1]}

\* CommandSucceeds that asks for exit code 0 whatever the action expects
CommandSucceedsOnZero(a, r) == r.kind = "returns" /\ r.exit = 0

\* the result of processCommandAction
CommandSucceeds(a, r) ==
  /\ r.kind = "returns"
  /\ (r.exit = 0) = (("expect" \in DOMAIN a) => a.expect # "fail")

\* handleExecCommand comes back in processCommandAction
ExecAnswers ==
  /\ phase = "exec"
  /\ \E r \in ExecResults :
       act' = [act EXCEPT
                 !.exec = r,
                 !.success =
                   CommandSucceeds(currentPlan.actions[loopIndex + 1], r)]
  /\ phase' = "health"
  /\ UNCHANGED <<state, currentPlan, currentActionIndex, aborted, loopOf,
                 loopIndex, architectCalls, loading, replanned,
                 actionsStarted, startedAfterAbort, abortSeen>>
  /\ UNCHANGED evars
  /\ UNCHANGED uvars

\* what runTypeCheck reports
TypeChecks == {"pass", "fail"}

\* the message of a failed type check
TypeCheckFailure == "Type checking failed: Command failed"

\* RetryHints that gives the Coder the hints of the action as they are
RetryHintsUnchanged(a, errorMessage) == HintsOf(a)

\* the hints of the retryAction that attemptSelfHealing gives the Coder
RetryHints(a, errorMessage) ==
  HintsOf(a)
    \o "\n\nPrevious attempt failed with error: " \o errorMessage
    \o "\nPlease fix the issues and ensure the code compiles."

\* runHealthChecks(action) after processAction has returned: a type check
\* for an edit, and attemptSelfHealing up to its callCoder when the check
\* fails
RunHealthChecks ==
  /\ phase = "health"
  /\ IF act.kind = "edit"
       THEN \E t \in TypeChecks :
              IF t = "fail" /\ currentPlan # Null
                THEN \E ctx \in ContextResults :
                       IF ctx = "built"
                         THEN /\ act' = [act EXCEPT
                                           !.check = t,
                                           !.heals = @ + 1,
                                           !.coderCalls = @ + 1,
                                           !.healCalls = @ + 1,
                                           !.retryHints =
                                             RetryHints(
                                               currentPlan.actions[
                                                 loopIndex + 1],
                                               TypeCheckFailure)]
                              /\ phase' = "healCoder"
                         ELSE /\ act' = [act EXCEPT !.check = t,
                                                    !.heals = @ + 1]
                              /\ phase' = "decide"
                ELSE /\ act' = [act EXCEPT !.check = t]
                     /\ phase' = "decide"
       ELSE /\ act' = [act EXCEPT !.check = "pass"]
            /\ phase' = "decide"
  /\ UNCHANGED <<state, currentPlan, currentActionIndex, aborted, loopOf,
                 loopIndex, architectCalls, loading, replanned,
                 actionsStarted, startedAfterAbort, abortSeen>>
  /\ UNCHANGED evars
  /\ UNCHANGED uvars

\* callCoder comes back in attemptSelfHealing
HealingCoderAnswers ==
  /\ phase = "healCoder"
  /\ \E r \in {"returns", "throws"} :
       IF r = "returns"
         THEN /\ act' = [act EXCEPT !.gateAsks = @ + 1]
              /\ phase' = "healGate"
         ELSE /\ act' = act
              /\ phase' = "decide"
  /\ UNCHANGED <<state, currentPlan, currentActionIndex, aborted, loopOf,
                 loopIndex, architectCalls, loading, replanned,
                 actionsStarted, startedAfterAbort, abortSeen>>
  /\ UNCHANGED evars
  /\ UNCHANGED uvars

\* the result of attemptSelfHealing after the confirmation c and, when the
\* healing patch was applied, the type check t that follows
HealingSucceeds(c, t) == c.review = "yes" /\ c.apply = "ok" /\ t = "pass"

\* the confirmation gate answers in attemptSelfHealing
HealingConfirmationAnswers ==
  /\ phase = "healGate"
  /\ \E c \in Confirmations, t \in TypeChecks :
       act' = [act EXCEPT
                 !.healDenied = (c.review # "yes"),
                 !.approvals = @ + (IF c.review = "yes" THEN 1 ELSE 0),
                 !.applies = @ + (IF Applies(c) THEN 1 ELSE 0),
                 !.healed = HealingSucceeds(c, t)]
  /\ phase' = "decide"
  /\ UNCHANGED <<state, currentPlan, currentActionIndex, aborted, loopOf,
                 loopIndex, architectCalls, loading, replanned,
                 actionsStarted, startedAfterAbort, abortSeen>>
  /\ UNCHANGED evars
  /\ UNCHANGED uvars

\* !success || !healthResult.success, healthResult being what the type
\* check after the action reported
ActionFailed(a) == ~a.success \/ a.check = "fail"

\* AfterAction that asks the Architect to replan after a failure in a
\* revised plan too
AfterActionReplansAgain ==
  /\ phase = "decide"
  /\ IF ~ActionFailed(act)
       THEN /\ loopIndex' = loopIndex + 1
            /\ phase' = "loop"
            /\ UNCHANGED <<state, loading, architectCalls, replanned>>
       ELSE /\ architectCalls' = architectCalls + 1
            /\ replanned' = "asked"
            /\ phase' = "replan"
            /\ UNCHANGED <<state, loading, loopIndex>>
  /\ UNCHANGED <<currentPlan, currentActionIndex, aborted, loopOf, act,
                 actionsStarted, startedAfterAbort, abortSeen>>
  /\ UNCHANGED evars
  /\ UNCHANGED uvars

\* after runHealthChecks: the next action, or attemptReplan up to its
\* callArchitect, or the end of the loop over a revised plan
AfterAction ==
  /\ phase = "decide"
  /\ IF ~ActionFailed(act)
       THEN /\ loopIndex' = loopIndex + 1
            /\ phase' = "loop"
            /\ UNCHANGED <<state, loading, architectCalls, replanned>>
       ELSE IF loopOf = "original"
         THEN /\ architectCalls' = architectCalls + 1
              /\ replanned' = "asked"
              /\ phase' = "replan"
              /\ UNCHANGED <<state, loading, loopIndex>>
         ELSE /\ Finish
              /\ UNCHANGED <<loopIndex, architectCalls, replanned>>
  /\ UNCHANGED <<currentPlan, currentActionIndex, aborted, loopOf, act,
                 actionsStarted, startedAfterAbort, abortSeen>>
  /\ UNCHANGED evars
  /\ UNCHANGED uvars

\* callArchitect comes back in attemptReplan: the loop over the revised
\* plan is entered, or attemptReplan returns false and run() ends
ReplanAnswers ==
  /\ phase = "replan"
  /\ \E resp \in ArchitectResponses :
       IF resp.kind = "throws" \/ ~ParsePlan(resp).ok
         THEN /\ replanned' = "failed"
              /\ Finish
              /\ UNCHANGED <<currentPlan, currentActionIndex, loopOf,
                             loopIndex>>
         ELSE /\ replanned' = "yes"
              /\ currentPlan' = ParsePlan(resp).plan
              /\ currentActionIndex' = 0
              /\ loopOf' = "revised"
              /\ loopIndex' = 0
              /\ phase' = "loop"
              /\ UNCHANGED <<state, loading>>
  /\ UNCHANGED <<aborted, act, architectCalls, actionsStarted,
                 startedAfterAbort, abortSeen>>
  /\ UNCHANGED evars
  /\ UNCHANGED uvars

\* the calls run() awaits outside the process: a cancel() can come in
\* while one of them is in flight
Awaited ==
  {"architect", "coder", "gate", "exec", "healCoder", "healGate", "replan"}

\* cancel() while run() is under way
OrchestratorCancel ==
  /\ state \notin {"idle", "done"}
  /\ phase \in Awaited
  /\ ~aborted
  /\ aborted' = TRUE
  /\ loading' = Append(loading, FALSE)
  /\ UNCHANGED <<state, currentPlan, currentActionIndex, phase, loopOf,
                 loopIndex, act, architectCalls, replanned, actionsStarted,
                 startedAfterAbort, abortSeen>>
  /\ UNCHANGED evars
  /\ UNCHANGED uvars

\* one Orchestrator; the workflow engine is not part of it
OrchestratorInit ==
  /\ Init
  /\ agents = Roles
  /\ maxSteps = MaxStepsOpt

OrchestratorNext ==
  \/ Run
  \/ ArchitectAnswers
  \/ ActionLoop
  \/ CoderAnswers
  \/ ConfirmationAnswers
  \/ ExecAnswers
  \/ RunHealthChecks
  \/ HealingCoderAnswers
  \/ HealingConfirmationAnswers
  \/ AfterAction
  \/ ReplanAnswers
  \/ OrchestratorCancel

OrchestratorSpec == OrchestratorInit /\ [][OrchestratorNext]_vars

\* the Orchestrator when run() is called and every call run() awaits (the
\* completion client with its bounded retries, the confirmation, the
\* command, the type check) comes back: a step that can be taken is taken
OrchestratorFairSpec == OrchestratorSpec /\ WF_vars(OrchestratorNext)

(***************************************************************************)
(* MultiAgentOrchestrator.executeRequest: what the owner of the engine     *)
(* tells its caller about a request                                        *)
(***************************************************************************)
\* JSON.stringify(value): a text that holds the properties of the value
Stringify(value) == [json |-> value]

\* the action text onPlanUpdated shows for a step:
\* step.input.description || JSON.stringify(step.input)
StepActionText(step) ==
  IF "description" \in DOMAIN step.input
    THEN step.input.description
    ELSE Stringify(step.input)

\* the task state onPlanUpdated makes of a plan and hands to onStateChange
TaskStateOf(p) ==
  [status |-> p.status,
   currentStep |-> p.currentStepIndex + 1,
   totalSteps |-> Len(p.steps),
   plan |-> [steps |-> [k \in DOMAIN p.steps |->
                          [role |-> p.steps[k].role,
                           action |-> StepActionText(p.steps[k]),
                           description |-> p.steps[k].status]]]]

\* the places in the log of the steps handed to onStepCompleted: their
\* outputs are the entries of the conversation history that have a role
CompletedCalls ==
  {k \in DOMAIN log : log[k].invoked /\ log[k].na \notin {Pending, Threw}}

\* the entry of the conversation history that the k-th started step left
HistoryEntry(k) ==
  LET step == StepAt(log[k].after, log[k].index)
  IN  [role |-> step.role, content |-> Stringify(step.output),
       output |-> step.output]

\* history.filter(msg => msg.role === role).slice(-1)[0], as a set that is
\* empty when there is no such entry
LastEntryOf(role) ==
  LET ks == {k \in CompletedCalls : HistoryEntry(k).role = role}
  IN  IF ks = {} THEN {}
      ELSE {HistoryEntry(CHOOSE k \in ks : \A j \in ks : j <= k)}

\* the roles getFinalOutput looks at, in its order
FinalOutputRoles ==
  <<"reviewer", "tester", "coder", "architect", ORCHESTRATOR>>

\* the text for failed plans of the fallback of getFinalOutput
CouldNotComplete == "Task could not be completed."

\* getFinalOutput(): the reviewer's finalResponse, else the message of the
\* last output of the first role that has one, else a fixed text
GetFinalOutput ==
  LET fromReviewer ==
        {e.output.finalResponse : e \in
           {e \in LastEntryOf("reviewer") : "finalResponse" \in DOMAIN e.output}}
      withMessage ==
        {n \in DOMAIN FinalOutputRoles :
           \E e \in LastEntryOf(FinalOutputRoles[n]) :
             "message" \in DOMAIN e.output}
  IN  IF fromReviewer # {} THEN CHOOSE t \in fromReviewer : TRUE
      ELSE IF withMessage # {}
        THEN LET n == CHOOSE n \in withMessage : \A m \in withMessage : n <= m
                 e == CHOOSE e \in LastEntryOf(FinalOutputRoles[n]) : TRUE
             IN  e.output.message
      ELSE IF taskState = "completed" THEN "Task completed successfully."
      ELSE CouldNotComplete

(***************************************************************************)
(* validateChangePlan on untrusted payloads (specification ValidateSpec)   *)
(***************************************************************************)
\* a command action whose payload has no expect
CommandWithoutExpect == [kind |-> "command", cmd |-> "npm test"]

\* the actions of the payloads: the Architect's actions, a command without
\* expect, an action with a property no schema declares, actions that lack
\* a required property, an action of no known kind, an action without kind
\* and commands whose expect is not in the enumeration
PayloadActions ==
  PlanActions
  \cup {CommandWithoutExpect,
        [kind |-> "message", content |-> "note", extra |-> "x"],
        [kind |-> "edit", description |-> "change"],
        [kind |-> "edit", file |-> "a.ts"],
        [kind |-> "command", expect |-> "pass"],
        [kind |-> "message"],
        [kind |-> "invalid", something |-> "value"],
        [file |-> "a.ts", description |-> "change"],
        CommandAction("invalid"),
        CommandAction("unknown")}

\* the payloads validateChangePlan is given: lists of up to MaxPayloadLen
\* actions, and an object without the property actions
Payloads ==
  UNION {{[actions |-> f] : f \in [1..n -> PayloadActions]} :
           n \in 0..MaxPayloadLen}
  \cup {[plan |-> <<>>]}

\* a payload is about to be validated
ValidateInit ==
  /\ NewOrchestrator
  /\ NewEngine
  /\ agents = Roles
  /\ maxSteps = MaxStepsOpt
  /\ IdleClient
  /\ NoTelemetry
  /\ NewContexts
  /\ EmptyCache
  /\ NewMultiAgentOrchestrator
  /\ payload \in Payloads
  /\ parsed = Pending

\* validateChangePlan(payload) returns a plan or throws
ValidateCall ==
  /\ parsed = Pending
  /\ parsed' = ValidateChangePlan(payload)
  /\ UNCHANGED <<payload, cvars, evars, ovars, xvars>>

ValidateNext == ValidateCall

ValidateSpec == ValidateInit /\ [][ValidateNext]_vars

(***************************************************************************)
(* The completion client: callArchitect, callCoder and BaseAgent.callOpenAI *)
(* (specification ClientSpec).  One call of chat.completions.create is one *)
(* request to the completion service.                                      *)
(***************************************************************************)
MAX_RETRIES == 5

RATE_LIMIT_RETRY_WAIT_MS == 2500

\* the functions that call the completion service in a retry loop
Clients == {"callArchitect", "callCoder", "callOpenAI"}

\* the role of the telemetry record a client pushes after a response; the
\* loop of callOpenAI pushes none
TelemetryRole(c) ==
  CASE c = "callArchitect" -> <<"architect">>
    [] c = "callCoder"     -> <<"coder">>
    [] c = "callOpenAI"    -> <<>>

\* AttemptTelemetry that records every attempt
AttemptTelemetryAlways(c, answered) == TelemetryRole(c)

\* what one attempt appends to the telemetry: the push stands in the try
\* block after the awaited request, so a failed request skips it
AttemptTelemetry(c, answered) == IF answered THEN TelemetryRole(c) ELSE <<>>

\* the errors chat.completions.create ends with: a timeout, a connection
\* error, a status of 500 or more, a rate-limit signal without and with a
\* suggested retry time (ms), and an error of none of these classes
ServiceErrors ==
  {[kind |-> "timeout", suggested |-> 0],
   [kind |-> "connection", suggested |-> 0],
   [kind |-> "server", suggested |-> 0],
   [kind |-> "rate_limit", suggested |-> 0],
   [kind |-> "rate_limit", suggested |-> 1500],
   [kind |-> "other", suggested |-> 0]}

\* the error of the throw statement after the loop
ExhaustedRetries == [kind |-> "exhausted", suggested |-> 0]

\* the classes of errors the catch block retries
RetryableKinds == {"timeout", "connection", "server", "rate_limit"}

\* ShouldRetry that retries errors of every class
ShouldRetryAnyError(err, n) == n < MAX_RETRIES

\* ShouldRetry that retries whatever the number of the attempt
ShouldRetryAlways(err, n) == err.kind \in RetryableKinds

\* shouldRetry(error, attempt), and the same tests in callOpenAI
ShouldRetry(err, n) ==
  /\ n < MAX_RETRIES
  /\ err.kind \in RetryableKinds

\* the delay waited before the retry after a rate-limit signal
BackoffDelay(err, n) ==
  IF err.suggested # 0 THEN err.suggested
  ELSE RATE_LIMIT_RETRY_WAIT_MS * 2 ^ (n - 1)

\* no client call has been made and no helper has been used
ClientInit ==
  /\ NewOrchestrator
  /\ NewEngine
  /\ agents = Roles
  /\ maxSteps = MaxStepsOpt
  /\ NoValidation
  /\ IdleClient
  /\ NoTelemetry
  /\ NewContexts
  /\ EmptyCache
  /\ NewMultiAgentOrchestrator

\* a client function is called: the loop starts and sends its first request
ClientCall ==
  /\ client = "none"
  /\ \E c \in Clients : client' = c
  /\ attempt' = 1
  /\ requests' = 1
  /\ UNCHANGED <<errors, waited, telemetry, outcome>>
  /\ UNCHANGED <<evars, ovars, pvars, xvars>>

\* the request in flight is answered: telemetry is recorded and the text of
\* the response is returned
ServiceResponds ==
  /\ client # "none"
  /\ outcome = NoOutcome
  /\ telemetry' = telemetry \o AttemptTelemetry(client, TRUE)
  /\ outcome' = [kind |-> "returned", error |-> Pending]
  /\ UNCHANGED <<client, attempt, requests, errors, waited>>
  /\ UNCHANGED <<evars, ovars, pvars, xvars>>

\* the request in flight ends with an error: the catch block retries, after
\* a delay for a rate-limit signal, or throws the error; the statement
\* after the loop throws when the loop runs out
ServiceFails ==
  /\ client # "none"
  /\ outcome = NoOutcome
  /\ \E err \in ServiceErrors :
       /\ errors' = Append(errors, err)
       /\ IF ShouldRetry(err, attempt)
            THEN /\ waited' = IF err.kind = "rate_limit"
                                THEN Append(waited, BackoffDelay(err, attempt))
                                ELSE waited
                 /\ attempt' = attempt + 1
                 /\ IF attempt + 1 <= MAX_RETRIES
                      THEN /\ requests' = requests + 1
                           /\ UNCHANGED outcome
                      ELSE /\ outcome' = [kind |-> "threw",
                                          error |-> ExhaustedRetries]
                           /\ UNCHANGED requests
            ELSE /\ outcome' = [kind |-> "threw", error |-> err]
                 /\ UNCHANGED <<attempt, requests, waited>>
  /\ telemetry' = telemetry \o AttemptTelemetry(client, FALSE)
  /\ UNCHANGED client
  /\ UNCHANGED <<evars, ovars, pvars, xvars>>

ClientNext ==
  \/ ClientCall
  \/ ServiceResponds
  \/ ServiceFails

ClientSpec == ClientInit /\ [][ClientNext]_vars

(***************************************************************************)
(* Telemetry of a run of the Orchestrator: recordTelemetry, reportTelemetry *)
(***************************************************************************)
\* the records one run is followed for
MaxRecords == 3

\* the usage of a response as the client records it: prompt tokens,
\* completion tokens and the cost calculateCost makes of them, in units of
\* a millionth of a dollar
Usages ==
  {[tokens_in |-> 1, tokens_out |-> 1, cost_usd |-> 1],
   [tokens_in |-> 2, tokens_out |-> 1, cost_usd |-> 3]}

\* the figures processEditAction and attemptSelfHealing record for an
\* applied patch: the length of the file, the length of the patch, and a
\* cost in proportion to the length of the patch
PatchEstimates ==
  {[tokens_in |-> 4, tokens_out |-> 2, cost_usd |-> 2]}

\* the getter telemetryData: the global array, or an empty one when the
\* global is not defined
TelemetryData ==
  IF multiAgentTelemetry.defined THEN multiAgentTelemetry.items ELSE <<>>

\* recordTelemetry(role, tokensIn, tokensOut, costUsd): the push is made
\* only when the global array exists
RecordTelemetry(role, u) ==
  IF multiAgentTelemetry.defined
    THEN [multiAgentTelemetry EXCEPT
            !.items = Append(@, [role |-> role, tokens_in |-> u.tokens_in,
                                 tokens_out |-> u.tokens_out,
                                 cost_usd |-> u.cost_usd])]
    ELSE multiAgentTelemetry

\* items.reduce((sum, item) => sum + item[field], 0)
RECURSIVE SumOf(_, _)
SumOf(items, field) ==
  IF items = <<>> THEN 0
  ELSE Head(items)[field] + SumOf(Tail(items), field)

\* items.filter(item => roles.includes(item.role))
RECURSIVE OfRoles(_, _)
OfRoles(items, roles) ==
  IF items = <<>> THEN <<>>
  ELSE IF Head(items).role \in roles
         THEN <<Head(items)>> \o OfRoles(Tail(items), roles)
         ELSE OfRoles(Tail(items), roles)

\* reportTelemetry(): nothing is emitted when telemetryData is empty;
\* otherwise the totals over telemetryData and the tokens of either model
ReportTelemetry ==
  IF Len(TelemetryData) = 0
    THEN [NoSummary EXCEPT !.state = "silent"]
    ELSE [state |-> "emitted",
          tokens_in |-> SumOf(TelemetryData, "tokens_in"),
          tokens_out |-> SumOf(TelemetryData, "tokens_out"),
          cost_usd |-> SumOf(TelemetryData, "cost_usd"),
          architect |->
            SumOf(OfRoles(TelemetryData, {"architect"}), "tokens_in")
            + SumOf(OfRoles(TelemetryData, {"architect"}), "tokens_out"),
          coder |->
            SumOf(OfRoles(TelemetryData, {"coder", "coder-healing"}),
                  "tokens_in")
            + SumOf(OfRoles(TelemetryData, {"coder", "coder-healing"}),
                    "tokens_out")]

\* run() has been called in a process where global.multiAgentTelemetry is
\* undefined, or where a MultiAgentOrchestrator has set it to an empty array
TelemetryInit ==
  /\ NewOrchestrator
  /\ NewEngine
  /\ agents = Roles
  /\ maxSteps = MaxStepsOpt
  /\ NoValidation
  /\ IdleClient
  /\ NewContexts
  /\ EmptyCache
  /\ NewMultiAgentOrchestrator
  /\ usage = <<>>
  /\ summary = NoSummary
  /\ multiAgentTelemetry \in
       {[defined |-> d, items |-> <<>>] : d \in BOOLEAN}

\* callArchitect or callCoder gets a response and pushes its record; the
\* first call of a run is the call of the Architect
ModelCallRecorded ==
  /\ summary.state = "none"
  /\ Len(telemetry) < MaxRecords
  /\ \E c \in {"callArchitect", "callCoder"}, u \in Usages :
       /\ telemetry = <<>> => c = "callArchitect"
       /\ telemetry' = telemetry \o AttemptTelemetry(c, TRUE)
       /\ usage' = Append(usage, u)
  /\ UNCHANGED <<multiAgentTelemetry, summary>>
  /\ UNCHANGED <<client, attempt, requests, errors, waited, outcome>>
  /\ UNCHANGED <<evars, ovars, pvars, hvars, fvars, mvars>>

\* a patch the Coder wrote has been applied: processEditAction records it
\* as "coder", attemptSelfHealing as "coder-healing"
PatchRecorded ==
  /\ summary.state = "none"
  /\ Len(OfRoles(TelemetryData, {"coder", "coder-healing"}))
       < Cardinality({k \in DOMAIN telemetry : telemetry[k] = "coder"})
  /\ \E role \in {"coder", "coder-healing"}, u \in PatchEstimates :
       multiAgentTelemetry' = RecordTelemetry(role, u)
  /\ UNCHANGED <<usage, summary, cvars, evars, ovars, pvars, hvars, fvars, mvars>>

\* the end of run(): reportTelemetry() is called after the Architect and
\* the actions of the plan
TelemetryReported ==
  /\ summary.state = "none"
  /\ telemetry # <<>>
  /\ summary' = ReportTelemetry
  /\ UNCHANGED <<usage, multiAgentTelemetry, cvars, evars, ovars, pvars, hvars, fvars, mvars>>

TelemetryNext ==
  \/ ModelCallRecorded
  \/ PatchRecorded
  \/ TelemetryReported

TelemetrySpec == TelemetryInit /\ [][TelemetryNext]_vars

(***************************************************************************)
(* buildContextForAgent: the slice of the shared context a role is given    *)
(***************************************************************************)
\* the messages a shared context is followed for
MaxHistory == 2

\* the messages of a conversation history: a role of Message.role, and
\* the value of metadata?.["fromRole"], "none" when the message carries none
Messages ==
  {[role |-> r, fromRole |-> f] :
     r \in {"user", "assistant", "system"},
     f \in {"none", "architect", "coder"}}

\* the filter of the TESTER case applied for every role
KeepsLikeTester(role, msg) ==
  \/ msg.role = "system"
  \/ msg.fromRole = "architect"
  \/ msg.fromRole = "coder"

\* whether the case of the role in buildContextForAgent keeps the message
\* in relevantHistory: the CODER and TESTER cases filter, the others do not
Keeps(role, msg) ==
  CASE role = "coder"  -> msg.role = "system" \/ msg.fromRole = "architect"
    [] role = "tester" -> \/ msg.role = "system"
                          \/ msg.fromRole = "architect"
                          \/ msg.fromRole = "coder"
    [] OTHER           -> TRUE

\* history.filter(msg => Keeps(role, msg))
RECURSIVE FilterHistory(_, _)
FilterHistory(role, history) ==
  IF history = <<>> THEN <<>>
  ELSE IF Keeps(role, Head(history))
         THEN <<Head(history)>> \o FilterHistory(role, Tail(history))
         ELSE FilterHistory(role, Tail(history))

\* the relevantHistory of the slice: the last 5 messages for the
\* Architect, the filtered or the whole history for the other roles
RelevantHistory(role, history) ==
  IF role = "architect"
    THEN SubSeq(history, IF Len(history) > 5 THEN Len(history) - 4 ELSE 1,
                Len(history))
    ELSE FilterHistory(role, history)

\* the same message is pushed to the history of both contexts
MessagePushed ==
  /\ slice = NoSlice
  /\ Len(conversationHistory) < MaxHistory
  /\ Len(otherHistory) < MaxHistory
  /\ \E msg \in Messages :
       /\ conversationHistory' = Append(conversationHistory, msg)
       /\ otherHistory' = Append(otherHistory, msg)
  /\ UNCHANGED <<slice, otherSlice>>
  /\ UNCHANGED <<evars, ovars, pvars, cvars, tvars, fvars, mvars>>

\* a message that is neither a system message nor marked as coming from
\* the Architect is pushed to the history of one of the contexts only
OtherMessagePushed ==
  /\ slice = NoSlice
  /\ \E msg \in Messages :
       /\ msg.role # "system"
       /\ msg.fromRole # "architect"
       /\ \/ /\ Len(conversationHistory) < MaxHistory
             /\ conversationHistory' = Append(conversationHistory, msg)
             /\ UNCHANGED otherHistory
          \/ /\ Len(otherHistory) < MaxHistory
             /\ otherHistory' = Append(otherHistory, msg)
             /\ UNCHANGED conversationHistory
  /\ UNCHANGED <<slice, otherSlice>>
  /\ UNCHANGED <<evars, ovars, pvars, cvars, tvars, fvars, mvars>>

\* buildContextForAgent(role, context) is called on either context
SliceBuilt ==
  /\ slice = NoSlice
  /\ \E role \in Roles :
       /\ slice' = [role |-> role,
                    relevantHistory |->
                      RelevantHistory(role, conversationHistory)]
       /\ otherSlice' = [role |-> role,
                         relevantHistory |->
                           RelevantHistory(role, otherHistory)]
  /\ UNCHANGED <<conversationHistory, otherHistory>>
  /\ UNCHANGED <<evars, ovars, pvars, cvars, tvars, fvars, mvars>>

SliceNext ==
  \/ MessagePushed
  \/ OtherMessagePushed
  \/ SliceBuilt

\* the contexts start as the helpers are before their first use
SliceSpec == ClientInit /\ [][SliceNext]_vars

(***************************************************************************)
(* getOrCreateFileSummary: the summary of a file, cached under a key made   *)
(* from the file                                                            *)
(***************************************************************************)
\* the length of the file's content
MaxContentLen == 2

\* the writes to the file that are followed
MaxWrites == 2

\* the calls of getOrCreateFileSummary that are followed
MaxSummaryCalls == 2

\* the contents of the file: sequences of the characters a and b
Contents ==
  UNION {[1..n -> {"a", "b"}] : n \in 0..MaxContentLen}

\* getFileHash(filePath) for the one path followed: the encoding of the
\* path followed by content.length; the encoding is one-to-one, so the key
\* is given as the pair that is encoded
GetFileHash(content) == [path |-> "file", length |-> Len(content)]

\* generateFileSummary(filePath): the relative path, the extension,
\* stats.size and stats.mtime of the file as it is when the call is made
GenerateFileSummary(content, time) ==
  [path |-> "file", size |-> Len(content), mtime |-> time]

\* the file is written with another content
FileWritten ==
  /\ mtime < MaxWrites
  /\ \E content \in Contents :
       /\ content # fileContent
       /\ fileContent' = content
  /\ mtime' = mtime + 1
  /\ UNCHANGED <<cache, calls>>
  /\ UNCHANGED <<evars, ovars, pvars, cvars, tvars, hvars, mvars>>

\* getOrCreateFileSummary(filePath, config): the summary file named after
\* the key is returned when it exists; otherwise a summary is generated,
\* written under the key and returned
GetOrCreateFileSummary ==
  /\ Len(calls) < MaxSummaryCalls
  /\ LET fileHash == GetFileHash(fileContent)
         cached == {e \in cache : e.key = fileHash}
         generated == GenerateFileSummary(fileContent, mtime)
     IN IF cached # {}
          THEN /\ \E e \in cached :
                    calls' = Append(calls,
                               [content |-> fileContent, time |-> mtime,
                                key |-> fileHash, returned |-> e.summary,
                                generated |-> FALSE])
               /\ UNCHANGED cache
          ELSE /\ cache' = cache \cup
                             {[key |-> fileHash, summary |-> generated]}
               /\ calls' = Append(calls,
                             [content |-> fileContent, time |-> mtime,
                              key |-> fileHash, returned |-> generated,
                              generated |-> TRUE])
  /\ UNCHANGED <<fileContent, mtime>>
  /\ UNCHANGED <<evars, ovars, pvars, cvars, tvars, hvars, mvars>>

CacheNext ==
  \/ FileWritten
  \/ GetOrCreateFileSummary

\* the file and the cache start as the helpers are before their first use
CacheSpec == ClientInit /\ [][CacheNext]_vars

(***************************************************************************)
(* MultiAgentOrchestrator.run: the agents hand the work to one another      *)
(***************************************************************************)
\* the nextAction of the responses the agent of a role answers with: the
\* Orchestrator on the initial request, the Architect, the Coder, the
\* Tester and the Reviewer; role is nextRole, suggestedRole or targetRole
AgentNextActions(role) ==
  CASE role = "orchestrator" ->
         {[type |-> "complete", role |-> "none"]}
         \cup {[type |-> "continue", role |-> r] :
                 r \in {"architect", "coder", "reviewer"}}
    [] role = "architect" ->
         {[type |-> "continue", role |-> "coder"],
          [type |-> "reject", role |-> "orchestrator"]}
    [] role = "coder" ->
         {[type |-> "continue", role |-> "tester"],
          [type |-> "question", role |-> "architect"]}
    [] role = "tester" ->
         {[type |-> "continue", role |-> "reviewer"],
          [type |-> "reject", role |-> "coder"],
          [type |-> "reject", role |-> "orchestrator"]}
    [] role = "reviewer" ->
         {[type |-> "complete", role |-> "none"],
          [type |-> "reject", role |-> "coder"],
          [type |-> "reject", role |-> "orchestrator"]}

\* run(input): up to the call of the Orchestrator agent
MultiAgentRun ==
  /\ workflowState = "idle"
  /\ workflowState' = "initializing"
  /\ awaiting' = "orchestrator"
  /\ invocations' = <<"orchestrator">>
  /\ indicator' = Append(indicator, TRUE)
  /\ UNCHANGED <<pendingAction, rejections>>
  /\ UNCHANGED <<evars, ovars, pvars, cvars, tvars, hvars, fvars>>

\* agent.process comes back: the response of the first call sets the
\* workflow, the response of a later call is shown and pushed to the
\* history by processAgentResponse; its nextAction goes to processNextAction
AgentResponds ==
  /\ awaiting # "none"
  /\ \E action \in AgentNextActions(awaiting) :
       /\ pendingAction' = action
       /\ rejections' =
            IF action.type = "reject"
              THEN Append(rejections,
                          [by |-> awaiting, suggestedRole |-> action.role,
                           after |-> Len(invocations)])
              ELSE rejections
  /\ IF workflowState = "initializing"
       THEN /\ workflowState' = "executing_workflow"
            /\ UNCHANGED conversationHistory
       ELSE /\ conversationHistory' =
                 Append(conversationHistory,
                        [role |-> "assistant", fromRole |-> awaiting])
            /\ UNCHANGED workflowState
  /\ awaiting' = "none"
  /\ UNCHANGED <<invocations, indicator, otherHistory, slice, otherSlice>>
  /\ UNCHANGED <<evars, ovars, pvars, cvars, tvars, fvars>>

\* agent.process throws: the catch block of run() sets the state ERROR
AgentProcessThrows ==
  /\ awaiting # "none"
  /\ workflowState' = "error"
  /\ awaiting' = "none"
  /\ indicator' = Append(indicator, FALSE)
  /\ UNCHANGED <<pendingAction, invocations, rejections>>
  /\ UNCHANGED <<evars, ovars, pvars, cvars, tvars, hvars, fvars>>

\* cancel() while run() is under way: the signal is aborted, which run()
\* never reads, and the loading indicator is turned off
MultiAgentCancel ==
  /\ workflowState \notin {"idle", "done", "error"}
  /\ FALSE \notin {indicator[k] : k \in DOMAIN indicator}
  /\ indicator' = Append(indicator, FALSE)
  /\ UNCHANGED <<workflowState, awaiting, pendingAction, invocations,
                 rejections>>
  /\ UNCHANGED <<evars, ovars, pvars, cvars, tvars, hvars, fvars>>

\* processNextAction(nextAction, context): Complete shows the final output
\* and returns; Continue with a nextRole hands off to the agent of that
\* role; every other action matches neither branch and returns. After the
\* return run() reports the telemetry and sets the state DONE
ProcessNextAction ==
  /\ workflowState = "executing_workflow"
  /\ awaiting = "none"
  /\ IF pendingAction.type = "continue" /\ pendingAction.role # "none"
       THEN /\ awaiting' = pendingAction.role
            /\ invocations' = Append(invocations, pendingAction.role)
            /\ UNCHANGED <<workflowState, indicator>>
       ELSE /\ workflowState' = "done"
            /\ indicator' = Append(indicator, FALSE)
            /\ UNCHANGED <<awaiting, invocations>>
  /\ pendingAction' = NoNextAction
  /\ UNCHANGED rejections
  /\ UNCHANGED <<evars, ovars, pvars, cvars, tvars, hvars, fvars>>

MultiAgentNext ==
  \/ MultiAgentRun
  \/ AgentResponds
  \/ AgentProcessThrows
  \/ ProcessNextAction
  \/ MultiAgentCancel

\* the MultiAgentOrchestrator starts as the helpers are before their first
\* use
MultiAgentSpec == ClientInit /\ [][MultiAgentNext]_vars

(***************************************************************************)
(* Properties of createPlan                                                *)
(***************************************************************************)
\* createPlan has just returned a plan: after a direct call, or inside
\* execute() before the loop has started a step
PlanJustCreated ==
  \/ lastCall = [op |-> "createPlan", result |-> "returned"]
  \/ /\ lastCall = [op |-> "execute", result |-> "running"]
     /\ pc = "loop"
     /\ log = <<>>

\* C1: when the coordinator's response holds plan.steps, createPlan builds
\* one pending step per coordinator step, in the same order and with the
\* same roles, sets currentStepIndex to 0 and the status to executing, and
\* hands that plan to onPlanUpdated.
C1_PlanBuiltFromCoordinatorSteps ==
  PlanJustCreated =>
    /\ planResp.kind = "returns"
    /\ planResp.hasSteps
    /\ Len(plan.steps) = Len(planResp.steps)
    /\ \A k \in DOMAIN plan.steps :
         /\ plan.steps[k].role = planResp.steps[k].role
         /\ plan.steps[k].input =
              [type |-> "task", description |-> planResp.steps[k].action]
         /\ plan.steps[k].status = "pending"
    /\ plan.currentStepIndex = 0
    /\ plan.status = "executing"
    /\ lastPlanUpdated = plan

\* a plan of three steps whose roles differ has just been created
C1_Witness ==
  /\ PlanJustCreated
  /\ Len(plan.steps) = 3
  /\ plan.steps[1].role # plan.steps[2].role
  /\ plan.steps[2].role # plan.steps[3].role

\* this step runs createPlan: a direct call, or an execute() that finds the
\* plan in status planning or without steps
CreatePlanRuns ==
  /\ pc = "idle"
  /\ \/ lastCall.op = "none" /\ lastCall'.op = "createPlan"
     \/ /\ lastCall.op # "execute"
        /\ lastCall'.op = "execute"
        /\ (plan.status = "planning" \/ Len(plan.steps) = 0)

\* the coordinator gave no usable plan: it is not registered (it was not
\* asked), it threw, or its response holds no plan.steps
NoUsablePlan(resp) ==
  resp = Pending \/ resp.kind = "throws" \/ ~resp.hasSteps

\* C2: when the coordinator produces no usable plan, createPlan raises an
\* error and leaves the plan in status planning, with the steps and
\* currentStepIndex it had before the call.
C2_FailedCreatePlanLeavesPlanning ==
  [][(CreatePlanRuns /\ NoUsablePlan(planResp')) =>
       /\ lastCall'.result = "threw"
       /\ plan'.status = "planning"
       /\ plan'.steps = plan.steps
       /\ plan'.currentStepIndex = plan.currentStepIndex]_vars

\* createPlan failed inside execute() on a plan an earlier createPlan had
\* built without steps: currentStepIndex is still the 0 it was given then
C2_Witness ==
  /\ lastCall = [op |-> "execute", result |-> "threw"]
  /\ planResp # Pending
  /\ planResp.kind = "returns"
  /\ plan.currentStepIndex = 0
  /\ plan.status = "planning"

(***************************************************************************)
(* Properties of handleNextAction.  log[k].before is the plan when step    *)
(* log[k] was started, log[k].after the plan when its next action had been *)
(* applied; log[k + 1], when there is one, is the step started next.       *)
(***************************************************************************)
\* the index of the first step after index i with role r, or -1
FirstLaterWithRole(steps, i, r) ==
  IF \E j \in (i + 1)..(Len(steps) - 1) : steps[j + 1].role = r
    THEN CHOOSE j \in (i + 1)..(Len(steps) - 1) :
           /\ steps[j + 1].role = r
           /\ \A h \in (i + 1)..(j - 1) : steps[h + 1].role # r
    ELSE -1

\* step k of the log returned Continue naming a role some later step has
ContinuedToLaterRole(k) ==
  /\ log[k].na.type = "continue"
  /\ log[k].na.nextRole # NoRole
  /\ FirstLaterWithRole(log[k].before.steps, log[k].index,
                        log[k].na.nextRole) # -1

\* C3: when the current step's agent returns Continue{nextRole: R} and a
\* later step has role R, every step strictly between the current step and
\* the first later R step ends skipped, currentStepIndex becomes the index
\* of that R step, and that R step is the step started next.
C3_ContinueToRoleSkipsBetween ==
  \A k \in DOMAIN log :
    ContinuedToLaterRole(k) =>
      LET e == log[k]
          j == FirstLaterWithRole(e.before.steps, e.index, e.na.nextRole)
      IN  /\ e.after.currentStepIndex = j
          /\ \A i \in (e.index + 1)..(j - 1) :
               \E m \in DOMAIN plan.steps :
                 /\ plan.steps[m].id = e.before.steps[i + 1].id
                 /\ plan.steps[m].status = "skipped"
          /\ k < Len(log) => log[k + 1].id = e.before.steps[j + 1].id

\* a Continue{nextRole: R} jumped over at least one step and the agent of
\* the R step has been called
C3_Witness ==
  \E k \in DOMAIN log :
    /\ ContinuedToLaterRole(k)
    /\ log[k].after.currentStepIndex > log[k].index + 1
    /\ k < Len(log)
    /\ log[k + 1].invoked

\* C4: when the current step (index i) returns Reject{reason, suggestedRole:
\* R}, a new pending step with role R is inserted at index i + 1, its input
\* carries the reason and the rejected step's input, the steps that were
\* after i follow it in their old order, and it is the step started next.
C4_RejectInsertsStepForSuggestedRole ==
  \A k \in DOMAIN log :
    log[k].na.type = "reject" =>
      LET e == log[k]
          i == e.index
          b == e.before.steps
          a == e.after.steps
      IN  /\ Len(a) = Len(b) + 1
          /\ a[i + 2].role = e.na.suggestedRole
          /\ a[i + 2].status = "pending"
          /\ a[i + 2].id \notin Ids(b)
          /\ a[i + 2].input.type = "recovery"
          /\ a[i + 2].input.reason = e.na.reason
          /\ a[i + 2].input.previousInput = b[i + 1].input
          /\ \A m \in 1..(i + 1) : a[m].id = b[m].id
          /\ \A m \in (i + 2)..Len(b) : a[m + 1] = b[m]
          /\ e.after.currentStepIndex = i + 1
          /\ k < Len(log) => log[k + 1].id = a[i + 2].id

\* a step with later steps behind it was rejected and the agent of the
\* inserted step has been called
C4_Witness ==
  \E k \in DOMAIN log :
    /\ log[k].na.type = "reject"
    /\ log[k].index + 1 < Len(log[k].before.steps)
    /\ k < Len(log)
    /\ log[k + 1].invoked

\* C5: when the current step (index i, role A) returns Question{question,
\* targetRole: T}, exactly two pending steps are inserted: a T step at
\* i + 1 holding the question and an A step at i + 2 holding A's original
\* input; currentStepIndex becomes i + 1, the T step is started next, and
\* after a plain Continue of T the A step is started right after it.
C5_QuestionInsertsAnswerAndReturnSteps ==
  \A k \in DOMAIN log :
    log[k].na.type = "question" =>
      LET e == log[k]
          i == e.index
          b == e.before.steps
          a == e.after.steps
      IN  /\ Len(a) = Len(b) + 2
          /\ a[i + 2].role = e.na.targetRole
          /\ a[i + 2].status = "pending"
          /\ a[i + 2].input.type = "question"
          /\ a[i + 2].input.question = e.na.question
          /\ a[i + 3].role = b[i + 1].role
          /\ a[i + 3].status = "pending"
          /\ a[i + 3].input.type = "continue_after_question"
          /\ a[i + 3].input.originalInput = b[i + 1].input
          /\ {a[i + 2].id, a[i + 3].id} \cap Ids(b) = {}
          /\ a[i + 2].id # a[i + 3].id
          /\ \A m \in 1..(i + 1) : a[m].id = b[m].id
          /\ \A m \in (i + 2)..Len(b) : a[m + 2] = b[m]
          /\ e.after.currentStepIndex = i + 1
          /\ k < Len(log) => log[k + 1].id = a[i + 2].id
          /\ (k + 1 < Len(log) /\ log[k + 1].na = Continue(NoRole))
               => log[k + 2].id = a[i + 3].id

\* a question was asked, the target role answered with a plain Continue and
\* the agent of the asking role has been called again
C5_Witness ==
  \E k \in DOMAIN log :
    /\ log[k].na.type = "question"
    /\ k + 1 < Len(log)
    /\ log[k + 1].na = Continue(NoRole)
    /\ log[k + 2].invoked
    /\ log[k].index + 1 < Len(log[k].before.steps)

\* C6: when the current step returns Complete{finalOutput}, every step
\* after it gets status skipped, currentStepIndex is set to len(steps), the
\* plan status becomes completed, and this execute() starts no further
\* step.
C6_CompleteSkipsRestAndEndsPlan ==
  \A k \in DOMAIN log :
    log[k].na.type = "complete" =>
      LET e == log[k]
          a == e.after.steps
      IN  /\ Len(a) = Len(e.before.steps)
          /\ \A m \in (e.index + 2)..Len(a) : a[m].status = "skipped"
          /\ e.after.currentStepIndex = Len(a)
          /\ e.after.status = "completed"
          /\ k = Len(log)
          /\ plan = e.after

\* a step with later steps behind it returned Complete and execute()
\* has returned
C6_Witness ==
  \E k \in DOMAIN log :
    /\ log[k].na.type = "complete"
    /\ log[k].index + 1 < Len(log[k].before.steps)
    /\ lastCall = [op |-> "execute", result |-> "returned"]

(***************************************************************************)
(* Properties of the catch block and attemptRecovery.  recoveries[n] is    *)
(* the n-th caught error: log[recoveries[n].at] is the step that failed,   *)
(* before the plan when attemptRecovery was entered, after the plan when   *)
(* it returned.                                                            *)
(***************************************************************************)
\* the coordinator gave no usable recovery plan, or threw, or was not
\* registered
NoRecoveryPlan(r) ==
  \/ ~r.asked
  \/ /\ r.resp # Pending
     /\ \/ r.resp.kind = "throws"
        \/ r.resp.nextType # "continue"
        \/ ~r.resp.hasPlan

\* C7: when a step's agent call raises an error, the step is marked failed
\* and the coordinator is called once with a recovery request carrying the
\* error and the failed step; if it returns no usable recovery plan, or the
\* recovery call fails, or no coordinator is registered, the plan status
\* becomes failed and no further step is started.
C7_StepErrorFailsStepAndAsksCoordinatorOnce ==
  /\ \A k \in DOMAIN log :
       log[k].na = Threw =>
         Cardinality({n \in DOMAIN recoveries : recoveries[n].at = k}) = 1
  /\ \A n \in DOMAIN recoveries :
       LET r == recoveries[n]
           failed == StepAt(r.before, r.before.currentStepIndex)
       IN  /\ failed.id = log[r.at].id
           /\ failed.status = "failed"
           /\ failed.output = [error |-> r.error]
           /\ r.asked =>
                r.request = [type |-> "recovery", error |-> r.error,
                             failedStep |-> failed]
           /\ (pc = "recovery" /\ n = Len(recoveries)) => request = r.request
           /\ NoRecoveryPlan(r) =>
                /\ r.after.status = "failed"
                /\ r.at = Len(log)
                /\ plan.status = "failed"

\* an agent call threw, the coordinator returned no recovery plan and
\* execute() has returned with the plan failed
C7_Witness ==
  \E n \in DOMAIN recoveries :
    /\ log[recoveries[n].at].invoked
    /\ recoveries[n].asked
    /\ recoveries[n].resp # Pending
    /\ recoveries[n].resp.kind = "returns"
    /\ ~recoveries[n].resp.hasPlan
    /\ lastCall = [op |-> "execute", result |-> "returned"]
    /\ plan.status = "failed"

Recovered(n) ==
  /\ recoveries[n].asked
  /\ recoveries[n].resp # Pending
  /\ ~NoRecoveryPlan(recoveries[n])

PlanCreated == lastCall.result \in {"returned", "running"}

Finished == {"completed", "failed", "skipped"}

\* the state part of C9
IndexInRange ==
  PlanCreated =>
    LET cur == plan.currentStepIndex
        n == Len(plan.steps)
    IN  /\ 0 <= cur
        /\ cur <= n
        /\ (plan.status = "executing" /\ cur < n) =>
             /\ \A m \in 1..cur : plan.steps[m].status \in Finished
             /\ \A m \in (cur + 2)..n : plan.steps[m].status = "pending"
             /\ pc \in {"idle", "loop"} => plan.steps[cur + 1].status = "pending"
             /\ pc = "agent" => plan.steps[cur + 1].status = "in_progress"
             /\ pc = "agent" => log[Len(log)].id = plan.steps[cur + 1].id
        /\ cur = n =>
             /\ \A m \in 1..n : plan.steps[m].status \in Finished
             /\ lastCall = [op |-> "execute", result |-> "returned"]
                  => plan.status = "completed"

\* C9: once createPlan has succeeded, 0 <= currentStepIndex <= len(steps)
\* in every state of execute(), currentStepIndex never decreases, and while
\* the plan is executing it is the index of the next step to run (every
\* step before it is finished, it and every step after it are still to
\* run); it is len(steps) only when every step is finished.
C9_IndexInRangeAndMonotone ==
  /\ []IndexInRange
  /\ [][PlanCreated => plan'.currentStepIndex >= plan.currentStepIndex]_vars

\* the loop is about to start the third step of a plan with a fourth step
C9_Witness ==
  /\ lastCall = [op |-> "execute", result |-> "running"]
  /\ pc = "loop"
  /\ plan.status = "executing"
  /\ plan.currentStepIndex = 2
  /\ Len(plan.steps) > 3

\* C10 as claimed: one call of execute() invokes step agents at most
\* maxSteps times, whatever the agents do.
C10_AtMostMaxStepsInvocations == Invocations <= maxSteps

(***************************************************************************)
(* Properties of the end of execute()                                      *)
(***************************************************************************)
\* execute() has returned without raising an error
ExecuteReturned == lastCall = [op |-> "execute", result |-> "returned"]

\* C11: when execute() returns normally the plan status is completed or
\* failed, never executing or planning, and it is completed exactly when
\* currentStepIndex >= len(steps).
C11_ExecuteEndsCompletedOrFailed ==
  ExecuteReturned =>
    /\ plan.status \in {"completed", "failed"}
    /\ plan.status = "completed" <=>
         plan.currentStepIndex >= Len(plan.steps)
    /\ lastPlanUpdated = plan

\* execute() returned because the step budget was used up: no step failed,
\* the clock had not run out and steps remain
C11_Witness ==
  /\ ExecuteReturned
  /\ plan.status = "failed"
  /\ ~timedOut
  /\ recoveries = <<>>
  /\ stepCount = maxSteps
  /\ plan.currentStepIndex < Len(plan.steps)

(***************************************************************************)
(* Sequential execution                                                    *)
(***************************************************************************)
\* the places in plan.steps of the steps that are in progress
InProgress == {m \in DOMAIN plan.steps : plan.steps[m].status = "in_progress"}

\* C16: at most one step is in_progress at any time, and it is the step
\* whose agent call is awaited; a step is started only when the agent call
\* of the step started before it has come back, and, when that call
\* returned, on the plan its next action was applied to.
C16_StepsRunOneAfterTheOther ==
  /\ Cardinality(InProgress) <= 1
  /\ \A m \in InProgress :
       /\ pc = "agent"
       /\ m = plan.currentStepIndex + 1
       /\ log[Len(log)].id = plan.steps[m].id
  /\ \A k \in DOMAIN log :
       /\ log[k].na = Pending => (k = Len(log) /\ pc = "agent")
       /\ (k < Len(log) /\ log[k].invoked /\ log[k].na # Threw) =>
            /\ log[k + 1].before =
                 [log[k].after EXCEPT
                    !.steps[log[k + 1].index + 1].status = "in_progress"]
            /\ \E m \in DOMAIN log[k + 1].before.steps :
                 /\ log[k + 1].before.steps[m].id = log[k].id
                 /\ log[k + 1].before.steps[m].status = "completed"
                 /\ log[k + 1].before.steps[m].output # Undefined

\* the agent of a third step is being awaited after the agents of two
\* steps have returned
C16_Witness ==
  /\ pc = "agent"
  /\ Len(log) = 3
  /\ log[1].invoked /\ log[1].na # Threw
  /\ log[2].invoked /\ log[2].na # Threw
  /\ InProgress # {}

(***************************************************************************)
(* Cancellation of a running request (specification CancelSpec)            *)
(***************************************************************************)
\* C13 as claimed: once cancel() has been called during execute(), the
\* engine starts no further plan step: no step is started after the one
\* that was in flight when cancel() was called.
C13_NoStepStartsAfterCancel ==
  cancelled # -1 => Len(log) <= cancelled

(***************************************************************************)
(* Properties of Orchestrator.run (specification OrchestratorSpec)         *)
(***************************************************************************)
\* run() has returned
RunReturned == phase = "returned"

\* C14: once cancel() has aborted the signal, run() starts no plan action:
\* no processAction call begins while the signal is aborted, in the loop
\* over the original plan or in the loop over a revised plan.
C14_NoActionStartsAfterAbort == startedAfterAbort = 0

\* cancel() came in while an action of a revised plan was in flight, the
\* loop over the revised plan found the signal aborted and stopped with an
\* action left
C14_Witness ==
  /\ RunReturned
  /\ abortSeen
  /\ loopOf = "revised"
  /\ 0 < loopIndex
  /\ loopIndex < Len(currentPlan.actions)

\* C15 as claimed: a run in which a loop found the signal aborted while
\* actions remained does not end in state DONE.
C15_CancelledRunEndsFailed == (RunReturned /\ abortSeen) => state # "done"

\* C20 as claimed: when an action failed and attemptReplan failed too (the
\* Architect call threw or its plan was invalid), run() does not end in
\* state DONE.
C20_FailedReplanEndsFailed ==
  (RunReturned /\ replanned = "failed") => state # "done"

\* the Architect is being asked to replan after the type check that
\* followed an edit action failed
ReplanAfterFailedCheck ==
  phase = "replan" /\ act.kind = "edit" /\ act.check = "fail"

HintsWithFailure ==
  act.hints
    \o "\n\nPrevious attempt failed with error: " \o TypeCheckFailure
    \o "\nPlease fix the issues and ensure the code compiles."

C18_HealedActionIsNotReplanned ==
  (act.success /\ act.healed) => phase # "replan"

\* C19 as claimed: after the confirmation gate denied the patch of an edit
\* action, the Coder is not called again for that action and the gate is
\* not asked again for a patch of that action.
C19_DeniedEditIsNotRetried ==
  act.denied => (act.coderCalls = 1 /\ act.gateAsks = 1)

\* the plan createPlan builds when the coordinator answers with no steps
ZeroStepPlan ==
  CreatePlanOutcome(EmptyPlan, Roles,
                    [kind |-> "returns", hasSteps |-> TRUE, steps |-> <<>>],
                    1)

\* C12: validateChangePlan accepts {actions: []} and returns a plan without
\* actions; a run() whose plan has no actions ends in state DONE and
\* starts no action of it; an execute() on a plan without steps does not
\* enter its loop, calls no step agent and ends with status completed.
C12_EmptyPlanCompletesAtOnce ==
  /\ ValidateChangePlan([actions |-> <<>>]) =
       [ok |-> TRUE, plan |-> [actions |-> <<>>]]
  /\ (RunReturned /\ currentPlan # Null /\ currentPlan.actions = <<>>) =>
       /\ state = "done"
       /\ loopOf = "original" => (actionsStarted = 0 /\ act = NoAction)
  /\ ~ZeroStepPlan.threw
  /\ \A limit \in 1..MaxStepsOpt :
       /\ ~LoopCondition(ZeroStepPlan.plan, 0, limit, FALSE)
       /\ FinalStatus(ZeroStepPlan.plan, 0, limit, FALSE) = "completed"
  /\ (ExecuteReturned /\ plan.steps = <<>>) =>
       (plan.status = "completed" /\ log = <<>>)

\* the Architect's first plan had no actions and run() has returned
C12_Witness ==
  /\ RunReturned
  /\ currentPlan # Null
  /\ currentPlan.actions = <<>>
  /\ loopOf = "original"
  /\ architectCalls = 1

(***************************************************************************)
(* What the caller is told about a failed request                          *)
(***************************************************************************)
\* why the plan of a returned execute() is failed: the error of the step
\* whose recovery gave no plan, or the clock, or the step budget
FailureReason ==
  IF recoveries # <<>> /\ recoveries[Len(recoveries)].after.status = "failed"
    THEN recoveries[Len(recoveries)].error
  ELSE IF timedOut THEN "Workflow timed out"
  ELSE "Workflow exceeded maximum number of steps"

\* the JSON text of a step input holds the words of reason
JsonSays(text, reason) ==
  \E f \in DOMAIN text.json \cap {"reason", "question", "error"} :
    text.json[f] = reason

\* the final output handed to onResponse, or an action text of the last
\* task state handed to onStateChange, holds the reason of the failure
FailureExplained ==
  \/ GetFinalOutput = FailureReason
  \/ \E k \in DOMAIN lastPlanUpdated.steps :
       /\ "description" \notin DOMAIN lastPlanUpdated.steps[k].input
       /\ JsonSays(TaskStateOf(lastPlanUpdated).plan.steps[k].action,
                   FailureReason)

\* C21 as claimed: when execute() has returned with the plan failed, the
\* caller has been handed a text that gives the reason of the failure,
\* through onResponse or through the task state of onStateChange.
C21_FailedRunExplainsFailure ==
  (ExecuteReturned /\ plan.status = "failed") => FailureExplained

\* the exit code of r matches what action a expects
ExitMatches(a, r) ==
  IF "expect" \in DOMAIN a /\ a.expect = "fail" THEN r.exit # 0
  ELSE r.exit = 0

\* C22: a command action succeeds exactly when the exit code of its command
\* matches its expectation: exit code 0 with expect pass or no expect, an
\* exit code other than 0 with expect fail; an action whose command could
\* not be run fails.
C22_CommandSucceedsIffExitMatches ==
  /\ \A a \in {CommandAction("pass"), CommandAction("fail"),
               CommandWithoutExpect} :
       \A r \in ExecResults :
         /\ r.kind = "returns" => (CommandSucceeds(a, r) <=> ExitMatches(a, r))
         /\ r.kind = "throws" => ~CommandSucceeds(a, r)
  /\ (act.kind = "command" /\ act.exec.kind = "returns") =>
       (act.success <=> ExitMatches(act.action, act.exec))
  /\ (act.kind = "command" /\ act.exec.kind = "throws") => ~act.success
  /\ (act.kind = "command" /\ phase = "decide" /\ ~act.success) =>
       ActionFailed(act)

\* a command action that expects a failure has run, its command ended with
\* an exit code other than 0 and the action succeeded
C22_Witness ==
  /\ act.kind = "command"
  /\ phase = "decide"
  /\ act.action.expect = "fail"
  /\ act.exec = [kind |-> "returns", exit |-> 1]
  /\ act.success

\* C23: applyPatch.apply() is called only for a patch the confirmation gate
\* answered with the decision YES, in processEditAction and in
\* attemptSelfHealing alike: the patches applied for an action are never
\* more than the approvals given for it, and at most one per request to
\* the gate; after any other decision nothing is applied for that request,
\* the edit (or the healing attempt) has failed and the action counts as
\* failed.
C23_NoPatchAppliedWithoutApproval ==
  /\ \A c \in Confirmations : Applies(c) => c.review = "yes"
  /\ \A c \in Confirmations :
       c.review # "yes" =>
         /\ ~EditSucceeds(c)
         /\ \A t \in TypeChecks : ~HealingSucceeds(c, t)
  /\ act.applies <= act.approvals
  /\ act.approvals <= act.gateAsks
  /\ act.denied => ~act.success
  /\ (act.denied /\ act.gateAsks = 1) => act.applies = 0
  /\ act.healDenied => (~act.healed /\ act.applies <= 1)
  /\ ((act.denied \/ act.healDenied) /\ phase = "decide") => ActionFailed(act)

\* the first patch of an edit action was approved and applied, the type
\* check failed and the gate denied the healing patch: one patch has been
\* applied after two requests to the gate
C23_Witness ==
  /\ phase = "decide"
  /\ act.kind = "edit"
  /\ act.gateAsks = 2
  /\ act.approvals = 1
  /\ act.applies = 1
  /\ act.healDenied

(***************************************************************************)
(* A step whose role has no agent                                          *)
(***************************************************************************)
\* the attemptRecovery calls made because the agent of a step was not found
NotFoundRecoveries ==
  {k \in DOMAIN recoveries :
     \E r \in Roles : recoveries[k].error = NotFoundError(r)}

\* C24 as claimed: when the plan reaches a step whose role has no
\* registered agent, the coordinator is not asked for a recovery plan, the
\* plan status becomes failed and no further step is started.
C24_MissingAgentEndsRun ==
  \A k \in NotFoundRecoveries :
    /\ ~recoveries[k].asked
    /\ recoveries[k].resp = Pending
    /\ pc # "recovery" => recoveries[k].after.status = "failed"
    /\ Len(log) = recoveries[k].at

(***************************************************************************)
(* Properties of validateChangePlan (specification ValidateSpec)           *)
(***************************************************************************)
\* validateChangePlan has been called on the payload
Validated == parsed # Pending

\* an action that lacks a required field of its kind, has no known kind, or
\* is a command with an expect outside the enumeration
BrokenAction(a) ==
  \/ "kind" \notin DOMAIN a
  \/ /\ "kind" \in DOMAIN a
     /\ \/ a.kind \notin {"edit", "command", "message"}
        \/ a.kind = "edit" /\ ~({"file", "description"} \subseteq DOMAIN a)
        \/ a.kind = "command" /\ "cmd" \notin DOMAIN a
        \/ a.kind = "message" /\ "content" \notin DOMAIN a
        \/ /\ a.kind = "command"
           /\ "expect" \in DOMAIN a
           /\ a.expect \notin ExpectValues

\* C25: validateChangePlan raises an error for a payload without the
\* property actions and for a payload in which some action is broken,
\* whatever the other actions are; when it returns, the plan has as many
\* actions as the payload, so it never holds only the valid ones.
C25_BrokenPayloadIsRejected ==
  Validated =>
    /\ "actions" \notin DOMAIN payload => ~parsed.ok
    /\ ("actions" \in DOMAIN payload
        /\ \E k \in DOMAIN payload.actions : BrokenAction(payload.actions[k]))
         => ~parsed.ok
    /\ parsed.ok => Len(parsed.plan.actions) = Len(payload.actions)

\* a payload whose first action is valid and whose second action is a
\* command with an expect outside the enumeration has been rejected
C25_Witness ==
  /\ Validated
  /\ "actions" \in DOMAIN payload
  /\ Len(payload.actions) = 2
  /\ ~BrokenAction(payload.actions[1])
  /\ payload.actions[2] = CommandAction("invalid")
  /\ ~parsed.ok

\* an action the claim C26 calls valid: an edit with file and description,
\* a command with cmd and an expect that is absent or one of pass, fail,
\* unknown, a message with content
ClaimedValid(a) ==
  /\ "kind" \in DOMAIN a
  /\ \/ a.kind = "edit" /\ {"file", "description"} \subseteq DOMAIN a
     \/ /\ a.kind = "command"
        /\ "cmd" \in DOMAIN a
        /\ "expect" \in DOMAIN a => a.expect \in {"pass", "fail", "unknown"}
     \/ a.kind = "message" /\ "content" \in DOMAIN a

\* C26 as claimed: for a payload whose actions are all valid in the sense
\* of the claim, validateChangePlan returns a plan with the same number of
\* actions, in the same order, with the same kinds and the same values of
\* the fields of each kind.
C26_ValidPayloadIsAccepted ==
  (/\ Validated
   /\ "actions" \in DOMAIN payload
   /\ \A k \in DOMAIN payload.actions : ClaimedValid(payload.actions[k]))
    => /\ parsed.ok
       /\ Len(parsed.plan.actions) = Len(payload.actions)
       /\ \A k \in DOMAIN payload.actions :
            /\ parsed.plan.actions[k].kind = payload.actions[k].kind
            /\ \A f \in DOMAIN parsed.plan.actions[k] :
                 parsed.plan.actions[k][f] = payload.actions[k][f]

(***************************************************************************)
(* Properties of the completion client (specification ClientSpec)          *)
(***************************************************************************)
\* the client call has ended
ClientEnded == outcome # NoOutcome

\* C27: a client call sends at most 5 requests to the completion service,
\* one per attempt, whatever errors the service returns; after the fifth
\* request has failed the call has ended.
C27_AtMostFiveRequests ==
  /\ requests <= 5
  /\ client # "none" => requests = attempt
  /\ Len(errors) <= requests
  /\ Len(errors) = 5 => ClientEnded

\* five requests were sent and all of them failed, with errors of all four
\* retryable classes among them
C27_Witness ==
  /\ ClientEnded
  /\ requests = 5
  /\ Len(errors) = 5
  /\ {errors[k].kind : k \in 1..4} = RetryableKinds

\* all five attempts of the call failed with retryable errors
AllAttemptsFailed ==
  /\ ClientEnded
  /\ Len(errors) = 5
  /\ \A k \in DOMAIN errors : errors[k].kind \in RetryableKinds

\* C28 as claimed: when every one of the 5 attempts fails with a retryable
\* error, the call fails with the exhausted-retries error, which is not the
\* service error of the last attempt.
C28_ExhaustedRetriesError ==
  AllAttemptsFailed =>
    /\ outcome.kind = "threw"
    /\ outcome.error = ExhaustedRetries
    /\ outcome.error # errors[5]

\* the errors of the call that are of no retryable class
NotRetryable == {k \in DOMAIN errors : errors[k].kind \notin RetryableKinds}

\* C29: an error that is not a timeout, a connection error, a server error
\* or a rate-limit signal ends the call and is the error the caller gets:
\* no request is sent after it and no delay is waited for after it; when
\* it is the error of the first attempt, the call has made exactly one
\* request and has waited for no delay.
C29_OtherErrorsAreNotRetried ==
  \A k \in NotRetryable :
    /\ k = Len(errors)
    /\ ClientEnded
    /\ outcome = [kind |-> "threw", error |-> errors[k]]
    /\ requests = k
    /\ Len(waited) =
         Cardinality({j \in 1..(k - 1) : errors[j].kind = "rate_limit"})
    /\ k = 1 => (requests = 1 /\ attempt = 1 /\ waited = <<>>)

\* the first attempt of a call ended with an error of no retryable class
C29_Witness ==
  /\ ClientEnded
  /\ Len(errors) = 1
  /\ errors[1].kind = "other"
  /\ requests = 1

\* C30: when attempts of callArchitect or callCoder fail with transient
\* errors and the next attempt, within the 5, succeeds, the call returns
\* and the telemetry holds exactly one record, of the role of the call; as
\* long as no attempt has succeeded, and when the call fails, it holds no
\* record.
C30_OneTelemetryRecordPerCall ==
  client \in {"callArchitect", "callCoder"} =>
    /\ outcome.kind = "returned" <=> Len(telemetry) = 1
    /\ outcome.kind = "returned" =>
         /\ telemetry = TelemetryRole(client)
         /\ Len(errors) < 5
         /\ requests = Len(errors) + 1
         /\ \A k \in DOMAIN errors : errors[k].kind \in RetryableKinds
    /\ (~ClientEnded \/ outcome.kind = "threw") => telemetry = <<>>

\* callArchitect returned after three transient failures and one success
C30_Witness ==
  /\ client = "callArchitect"
  /\ outcome.kind = "returned"
  /\ Len(errors) = 3
  /\ requests = 4
  /\ telemetry = <<"architect">>

\* the records the client functions pushed during the run, with their roles
ClientRecords ==
  [k \in DOMAIN telemetry |->
     [role |-> telemetry[k], tokens_in |-> usage[k].tokens_in,
      tokens_out |-> usage[k].tokens_out, cost_usd |-> usage[k].cost_usd]]

\* C31 as claimed: once the run has reported its telemetry, a summary has
\* been emitted and its token and cost totals are the sums over the records
\* callArchitect and callCoder pushed during the run.
C31_SummaryTotalsAreClientSums ==
  summary.state # "none" =>
    /\ summary.state = "emitted"
    /\ summary.tokens_in = SumOf(ClientRecords, "tokens_in")
    /\ summary.tokens_out = SumOf(ClientRecords, "tokens_out")
    /\ summary.cost_usd = SumOf(ClientRecords, "cost_usd")

\* a message whose role is system or that is marked as the Architect's
FromSystemOrArchitect(msg) ==
  msg.role = "system" \/ msg.fromRole = "architect"

\* C32: the history of the Coder's slice holds only messages whose role is
\* system or whose author is the Architect, and the Coder's slices of two
\* contexts that differ only in messages of other authors have the same
\* history.
C32_CoderHistoryIsSystemOrArchitect ==
  slice.role = "coder" =>
    /\ \A k \in DOMAIN slice.relevantHistory :
         FromSystemOrArchitect(slice.relevantHistory[k])
    /\ slice.relevantHistory = otherSlice.relevantHistory

\* the Coder's slice was built from two contexts that differ in a message
\* marked as the Coder's, and it holds a message of the Architect
C32_Witness ==
  /\ slice.role = "coder"
  /\ conversationHistory # otherHistory
  /\ \E k \in DOMAIN conversationHistory :
       conversationHistory[k].fromRole = "coder"
  /\ slice.relevantHistory # <<>>
  /\ Len(slice.relevantHistory) < Len(conversationHistory)

\* two calls of getOrCreateFileSummary have been made for the path
TwoSummaryCalls == Len(calls) = 2

\* C33 as claimed: when the content of the file changed between two calls
\* of getOrCreateFileSummary the key changes and the second call does not
\* return the summary cached for the old content; when the content is the
\* same the second call returns the cached summary and generates none.
C33_ChangedContentChangesKey ==
  TwoSummaryCalls =>
    IF calls[1].content # calls[2].content
      THEN /\ calls[2].key # calls[1].key
           /\ calls[2].returned # calls[1].returned
      ELSE /\ calls[2].returned = calls[1].returned
           /\ ~calls[2].generated

\* cancel() was called during the run: it is what aborts the signal
CancelCalled == aborted

\* when run() has returned the state is DONE or
\* ERROR and, without a call of cancel(), onLoading was called with true
\* and then with false, and not again
ReturnsDoneOrError ==
  RunReturned =>
    /\ state \in {"done", "error"}
    /\ ~CancelCalled => loading = <<TRUE, FALSE>>

Handled(rejection) ==
  /\ Len(invocations) > rejection.after
  /\ invocations[rejection.after + 1] = rejection.suggestedRole

\* C35 as claimed: after an agent answered Reject with a suggested role R,
\* the next agent invoked is the agent of role R, and run() does not end in
\* state DONE while the rejection is unhandled.
C35_RejectionIsActedOn ==
  \A k \in DOMAIN rejections :
    /\ Len(invocations) > rejections[k].after => Handled(rejections[k])
    /\ workflowState = "done" => Handled(rejections[k])

\* step k of the log returned Continue without a role, or naming a role no
\* later step has
ContinuedToNextStep(k) ==
  /\ log[k].na.type = "continue"
  /\ \/ log[k].na.nextRole = NoRole
     \/ FirstLaterWithRole(log[k].before.steps, log[k].index,
                           log[k].na.nextRole) = -1

\* the identities of the steps of a plan that are marked skipped
SkippedIds(p) == {p.steps[m].id : m \in {h \in DOMAIN p.steps :
                                          p.steps[h].status = "skipped"}}

\* C36: when the current step's agent returns Continue without a role, or
\* Continue{nextRole: R} while no later step has role R, currentStepIndex
\* advances by exactly one and no step is marked skipped: the list of steps
\* stays as long as it was and the skipped steps are those that were
\* skipped before.
C36_ContinueAdvancesByOne ==
  \A k \in DOMAIN log :
    ContinuedToNextStep(k) =>
      /\ log[k].after.currentStepIndex = log[k].index + 1
      /\ log[k].before.currentStepIndex = log[k].index
      /\ Len(log[k].after.steps) = Len(log[k].before.steps)
      /\ SkippedIds(log[k].after) = SkippedIds(log[k].before)

\* a step with pending steps behind it returned Continue naming a role
\* none of them has
C36_Witness ==
  \E k \in DOMAIN log :
    /\ ContinuedToNextStep(k)
    /\ log[k].na.nextRole # NoRole
    /\ log[k].index + 1 < Len(log[k].before.steps)
    /\ log[k].after.steps[log[k].index + 2].status = "pending"

\* the input holds the value under one of its properties other than type
Carries(input, value) ==
  \E key \in DOMAIN input \ {"type", "question", "askedBy", "description"} :
    input[key] = value

\* step k of the log asked a question, the step of the target role answered
\* and moved on, and the step that returns to the asker was executed
ReturnedToAsker(k) ==
  /\ log[k].na.type = "question"
  /\ k + 2 <= Len(log)
  /\ log[k + 1].na = Continue(NoRole)
  /\ log[k + 2].invoked

\* C37 as claimed: when the step that returns to the asker is executed, its
\* input carries the output of the step of the target role together with
\* the asker's original input.
C37_ReturnStepCarriesAnswer ==
  \A k \in DOMAIN log :
    ReturnedToAsker(k) =>
      LET answered == StepAt(log[k + 2].before, log[k + 1].index)
          back == StepAt(log[k + 2].before, log[k + 2].index)
      IN  /\ answered.status = "completed"
          /\ back.input.originalInput = StepAt(log[k].before, log[k].index).input
          /\ Carries(back.input, answered.output)

\* execute() stands at the head of its loop, before the condition is read,
\* or has left the loop
AtLoopBoundary == pc \in {"loop", "idle"} /\ lastCall.op = "execute"

\* C38: at every loop boundary of execute(), each step below
\* currentStepIndex is completed, failed or skipped, each step above it is
\* pending, and no step other than the one at currentStepIndex is
\* in_progress.
C38_StepsPartitionedByIndex ==
  AtLoopBoundary =>
    \A m \in DOMAIN plan.steps :
      /\ m - 1 < plan.currentStepIndex => plan.steps[m].status \in Finished
      /\ m - 1 > plan.currentStepIndex => plan.steps[m].status = "pending"
      /\ plan.steps[m].status = "in_progress" => m - 1 = plan.currentStepIndex

\* the loop stands between two steps of a plan in which a step was skipped
\* and a step failed, with a pending step ahead
C38_Witness ==
  /\ pc = "loop"
  /\ lastCall.op = "execute"
  /\ \E m \in DOMAIN plan.steps :
       m - 1 < plan.currentStepIndex /\ plan.steps[m].status = "skipped"
  /\ \E m \in DOMAIN plan.steps :
       m - 1 < plan.currentStepIndex /\ plan.steps[m].status = "failed"
  /\ \E m \in DOMAIN plan.steps :
       m - 1 > plan.currentStepIndex /\ plan.steps[m].status = "pending"

\* a step behind step m of the plan that attemptRecovery inserted and that
\* was executed and completed
RecoveredBehind(m) ==
  \E j \in DOMAIN plan.steps :
    /\ j > m
    /\ plan.steps[j].input.type = "recovery_task"
    /\ plan.steps[j].status = "completed"

\* C39 as claimed: whenever the plan's status is completed, every step is
\* completed or skipped, except that a failed step may remain when a
\* recovery step inserted after it was executed and completed.
C39_CompletedPlanHasNoUnrecoveredFailure ==
  plan.status = "completed" =>
    \A m \in DOMAIN plan.steps :
      \/ plan.steps[m].status \in {"completed", "skipped"}
      \/ plan.steps[m].status = "failed" /\ RecoveredBehind(m)

\* C40: in one run the Architect is called at most twice, once for the
\* initial plan and at most once to replan; the loop over the revised plan
\* goes on to a next action only after an action that did not fail, so a
\* failing action of the revised plan ends the execution, and it asks for
\* no other plan.
C40_AtMostOneReplan ==
  /\ architectCalls <= 2
  /\ architectCalls = 2 <=> replanned # "no"
  /\ (loopOf = "revised" /\ phase = "loop" /\ loopIndex > 0) =>
       ~ActionFailed(act)
  /\ ~(loopOf = "revised" /\ phase = "replan")

\* an action of the revised plan failed with an action still ahead, and
\* run() has returned after two calls of the Architect
C40_Witness ==
  /\ RunReturned
  /\ ~aborted
  /\ loopOf = "revised"
  /\ ActionFailed(act)
  /\ loopIndex + 1 < Len(currentPlan.actions)
  /\ architectCalls = 2

====
